---------------------------- MODULE Spec2Model ----------------------------
(***************************************************************************)
(* A model of the adventure-game "game master":                            *)
(*   - the GameEngine of src/main.py and src/game_engine.py (session       *)
(*     state, turn processing, NPC interaction, rolling event summary),    *)
(*   - the StoryEngine of src/story_engine.py and src/gemini/,             *)
(*   - the WorldGenerator's generate_world, create_world_graph,            *)
(*     save_world and load_world (src/ and src/gemini/),                   *)
(*   - the Flask request handlers of src/assets/npc/app.py.                *)
(* Python strings are TLA+ strings; Python values that may be of several   *)
(* types (parsed JSON, None) are tagged records.  Every LLM call is a      *)
(* choice of the environment: the endpoint fails, or it returns a text.    *)
(***************************************************************************)
EXTENDS Integers, Sequences, FiniteSets, TLC

VARIABLES
    call,               \* pure-function harness: the arguments of the call
    ret,                \* pure-function harness: what the call returned
    variant,            \* GameEngine: "main" (src/main.py) or "game_engine"
    adapter,            \* GameEngine: its caller, "terminal" or "http" (app.py)
    world,              \* GameEngine.world["locations"]
    started,            \* start_game has been called on the engine
    current_location,   \* GameEngine.current_location: an index of world, 0 = None
    event_summary,      \* GameEngine.event_summary
    next_action,        \* the main loop's next_action (src/main.py, terminal)
    crashed,            \* an exception has ended the terminal process
    last,               \* what the last operation was given and what it did
    turns,              \* operations so far
    story,              \* a StoryEngine session and its last operation
    files,              \* the file that save_world writes and load_world reads
    http,               \* app.py: llm_status, game_engine and the requests
    ui                  \* UI.py: the window's narrative fields and its workers

pureVars == <<call, ret>>
engineVars == <<variant, adapter, world, started, current_location,
                event_summary, next_action, crashed, last, turns>>
vars == <<call, ret, variant, adapter, world, started, current_location,
          event_summary, next_action, crashed, last, turns, story, files, http,
          ui>>

-----------------------------------------------------------------------------
(* Python str operations *)

\* s * n
RECURSIVE Rep(_, _)
Rep(s, n) ==
    IF n <= 0 THEN ""
    ELSE LET h == Rep(s, n \div 2)
         IN  IF n % 2 = 0 THEN h \o h ELSE h \o h \o s

\* s[-k:]
Suffix(s, k) == IF Len(s) <= k THEN s ELSE SubSeq(s, Len(s) - k + 1, Len(s))

\* s[:k]
Prefix(s, k) == IF Len(s) <= k THEN s ELSE SubSeq(s, 1, k)

\* s.startswith(p)
StartsWith(s, p) == Len(p) <= Len(s) /\ SubSeq(s, 1, Len(p)) = p

\* s.endswith(p)
EndsWith(s, p) == Len(p) <= Len(s) /\ Suffix(s, Len(p)) = p

\* sub in s
Contains(s, sub) ==
    \E i \in 1..(Len(s) - Len(sub) + 1) : SubSeq(s, i, i + Len(sub) - 1) = sub

\* s[i] for a 1-based i, "" outside the string
At(s, i) == IF i >= 1 /\ i <= Len(s) THEN SubSeq(s, i, i) ELSE ""

\* s[i:] for a 1-based i
From(s, i) == IF i > Len(s) THEN "" ELSE SubSeq(s, i, Len(s))

\* s[i:].startswith(p) for a 1-based i
StartsWithAt(s, i, p) ==
    i >= 1 /\ i + Len(p) - 1 <= Len(s) /\ SubSeq(s, i, i + Len(p) - 1) = p

\* s.find(c), 1-based, 0 where Python returns -1
Find(s, c) ==
    IF Contains(s, c)
    THEN CHOOSE i \in 1..Len(s) :
            /\ StartsWithAt(s, i, c)
            /\ \A j \in 1..(i - 1) : ~StartsWithAt(s, j, c)
    ELSE 0

\* s.rfind(c), 1-based, 0 where Python returns -1
RFind(s, c) ==
    IF Contains(s, c)
    THEN CHOOSE i \in 1..Len(s) :
            /\ StartsWithAt(s, i, c)
            /\ \A j \in (i + 1)..Len(s) : ~StartsWithAt(s, j, c)
    ELSE 0

Upper == "ABCDEFGHIJKLMNOPQRSTUVWXYZ"
LowerLetters == "abcdefghijklmnopqrstuvwxyz"
Digits == "0123456789"

LowerChar(c) == IF Contains(Upper, c) THEN At(LowerLetters, Find(Upper, c)) ELSE c

\* s.lower()
RECURSIVE Lower(_)
Lower(s) == IF s = "" THEN "" ELSE LowerChar(At(s, 1)) \o Lower(From(s, 2))

\* the whitespace of str.split(), str.strip() and the regex \s
IsSpace(c) == c \in {" ", "\n", "\t", "\r"}

\* the first index >= i of s that holds no whitespace (Len(s) + 1 if none)
RECURSIVE SkipWs(_, _)
SkipWs(s, i) == IF i <= Len(s) /\ IsSpace(At(s, i)) THEN SkipWs(s, i + 1) ELSE i

\* the first index >= i of s that holds whitespace (Len(s) + 1 if none)
RECURSIVE SkipWord(_, _)
SkipWord(s, i) == IF i <= Len(s) /\ ~IsSpace(At(s, i)) THEN SkipWord(s, i + 1) ELSE i

\* the last index <= i of s that holds no whitespace (0 if none)
RECURSIVE SkipWsBack(_, _)
SkipWsBack(s, i) == IF i >= 1 /\ IsSpace(At(s, i)) THEN SkipWsBack(s, i - 1) ELSE i

\* s.strip()
Strip(s) ==
    LET a == SkipWs(s, 1)
        b == SkipWsBack(s, Len(s))
    IN  IF a > b THEN "" ELSE SubSeq(s, a, b)

\* s.lstrip(chars): the characters of chars are dropped from the left
RECURSIVE LStripChars(_, _)
LStripChars(s, chars) ==
    IF s # "" /\ Contains(chars, At(s, 1)) THEN LStripChars(From(s, 2), chars)
    ELSE s

\* s.rstrip(chars)
RECURSIVE RStripChars(_, _)
RStripChars(s, chars) ==
    IF s # "" /\ Contains(chars, At(s, Len(s)))
    THEN RStripChars(SubSeq(s, 1, Len(s) - 1), chars)
    ELSE s

\* s.split() is empty: s[0] of it raises IndexError
SplitIsEmpty(s) == SkipWs(s, 1) > Len(s)

\* s.split()[0], for a text with a token
SplitFirst(s) == LET a == SkipWs(s, 1) IN SubSeq(s, a, SkipWord(s, a) - 1)

\* s.isdigit()
IsDigit(s) == s # "" /\ \A i \in 1..Len(s) : Contains(Digits, At(s, i))

DigitValue(c) == Find(Digits, c) - 1

\* int(s) of a text of digits
RECURSIVE DigitsValue(_)
DigitsValue(s) ==
    IF s = "" THEN 0
    ELSE 10 * DigitsValue(SubSeq(s, 1, Len(s) - 1)) + DigitValue(At(s, Len(s)))

\* int(t) succeeds for a stripped text t: an optional sign and digits
IsSigned(t) == IsDigit(IF At(t, 1) \in {"-", "+"} THEN From(t, 2) ELSE t)

\* int(t) for a stripped text t that int() accepts
SignedValue(t) ==
    IF At(t, 1) = "-" THEN 0 - DigitsValue(From(t, 2))
    ELSE IF At(t, 1) = "+" THEN DigitsValue(From(t, 2))
    ELSE DigitsValue(t)

\* int(s) succeeds: whitespace around the number is allowed
IsIntText(s) == IsSigned(Strip(s))

\* int(s), for a text int() accepts
IntOf(s) == SignedValue(Strip(s))

\* sep.join(texts)
RECURSIVE Join(_, _)
Join(sep, texts) ==
    IF texts = <<>> THEN ""
    ELSE IF Len(texts) = 1 THEN texts[1]
    ELSE texts[1] \o sep \o Join(sep, Tail(texts))

\* x in xs for a list
InSeq(x, xs) == \E i \in 1..Len(xs) : xs[i] = x

-----------------------------------------------------------------------------
(* Python values of more than one possible type: parsed JSON and None.     *)
(* A dict keeps its keys in insertion order, as Python's does.             *)

PyNone == [t |-> "none"]
PyStr(s) == [t |-> "str", s |-> s]
PyInt(n) == [t |-> "int", n |-> n]
PyBool(b) == [t |-> "bool", b |-> b]
PyList(l) == [t |-> "list", l |-> l]
PyDict(k, v) == [t |-> "dict", k |-> k, v |-> v]

EmptyDict == PyDict(<<>>, <<>>)

KeyIndex(d, key) ==
    IF InSeq(key, d.k) THEN CHOOSE i \in 1..Len(d.k) : d.k[i] = key ELSE 0

\* d.get(key, default) of a dict
DictGet(d, key, default) ==
    IF InSeq(key, d.k) THEN d.v[KeyIndex(d, key)] ELSE default

\* d[key] = val of a dict
DictSet(d, key, val) ==
    IF InSeq(key, d.k)
    THEN PyDict(d.k, [d.v EXCEPT ![KeyIndex(d, key)] = val])
    ELSE PyDict(Append(d.k, key), Append(d.v, val))

\* "key in x" raises TypeError: x is not a container
InRaises(x) == x.t \in {"none", "int", "bool"}

\* "key in x" for a text key: a key of a dict, a substring of a str, an
\* element of a list
PyIn(key, x) ==
    CASE x.t = "dict" -> InSeq(key, x.k)
      [] x.t = "str"  -> Contains(x.s, key)
      [] x.t = "list" -> InSeq(PyStr(key), x.l)
      [] OTHER        -> FALSE

\* "x[key] = val" with a text key raises TypeError: only a dict takes it
SetItemRaises(x) == x.t # "dict"

\* bool(x)
Truthy(x) ==
    CASE x.t = "none" -> FALSE
      [] x.t = "str"  -> x.s # ""
      [] x.t = "int"  -> x.n # 0
      [] x.t = "bool" -> x.b
      [] x.t = "list" -> x.l # <<>>
      [] x.t = "dict" -> x.k # <<>>

\* str(x) inside an f-string, for the values the engine formats
PyFormat(x) ==
    CASE x.t = "none" -> "None"
      [] x.t = "str"  -> x.s
      [] OTHER        -> "?"

-----------------------------------------------------------------------------
(* json.loads, for JSON without string escapes and without fractions.      *)

ParseFail == [ok |-> FALSE, v |-> PyNone, next |-> 0]
ParseOk(v, next) == [ok |-> TRUE, v |-> v, next |-> next]

\* a string whose opening quote is at i and whose closing quote is the
\* q-th character after it (q = 0: there is none)
StringUpTo(s, i, q) ==
    IF At(s, i) # "\"" \/ q = 0 THEN ParseFail
    ELSE ParseOk(PyStr(SubSeq(s, i + 1, i + q - 1)), i + q + 1)

\* a string whose opening quote is at i
ParseString(s, i) == StringUpTo(s, i, Find(From(s, i + 1), "\""))

\* the first index >= i of s that holds no digit (Len(s) + 1 if none)
RECURSIVE SkipDigits(_, _)
SkipDigits(s, i) ==
    IF i <= Len(s) /\ Contains(Digits, At(s, i)) THEN SkipDigits(s, i + 1) ELSE i

\* an integer whose digits are s[a..b-1], negative if neg
NumberOf(s, neg, a, b) ==
    IF b = a \/ (b > a + 1 /\ At(s, a) = "0") \/ At(s, b) \in {".", "e", "E"}
    THEN ParseFail
    ELSE ParseOk(PyInt(IF neg THEN 0 - DigitsValue(SubSeq(s, a, b - 1))
                       ELSE DigitsValue(SubSeq(s, a, b - 1))), b)

\* an integer whose digits start at a
NumberFrom(s, neg, a) == NumberOf(s, neg, a, SkipDigits(s, a))

\* an integer that starts at i
ParseNumber(s, i) ==
    IF At(s, i) = "-" THEN NumberFrom(s, TRUE, i + 1) ELSE NumberFrom(s, FALSE, i)

RECURSIVE ParseValue(_, _), ValueAt(_, _, _), ParseArrayRest(_, _, _),
          ArrayNext(_, _, _), ParseObjectRest(_, _, _), ObjectColon(_, _, _),
          ObjectValue(_, _, _, _), ObjectNext(_, _, _, _)

\* after an element or a member that ends before j: the next one after a
\* comma, or the end at the closing bracket
ArraySep(s, acc, j) ==
    IF At(s, j) = "," THEN ParseArrayRest(s, j + 1, acc)
    ELSE IF At(s, j) = "]" THEN ParseOk(PyList(acc), j + 1)
    ELSE ParseFail

ObjectSep(s, d, j) ==
    IF At(s, j) = "," THEN ParseObjectRest(s, j + 1, d)
    ELSE IF At(s, j) = "}" THEN ParseOk(d, j + 1)
    ELSE ParseFail

\* the value that starts at i, c its first character
ValueAt(s, i, c) ==
    CASE c = "{" ->
            IF At(s, SkipWs(s, i + 1)) = "}"
            THEN ParseOk(EmptyDict, SkipWs(s, i + 1) + 1)
            ELSE ParseObjectRest(s, i + 1, EmptyDict)
      [] c = "[" ->
            IF At(s, SkipWs(s, i + 1)) = "]"
            THEN ParseOk(PyList(<<>>), SkipWs(s, i + 1) + 1)
            ELSE ParseArrayRest(s, i + 1, <<>>)
      [] c = "\"" -> ParseString(s, i)
      [] c = "-" \/ (c # "" /\ Contains(Digits, c)) -> ParseNumber(s, i)
      [] StartsWithAt(s, i, "true") -> ParseOk(PyBool(TRUE), i + 4)
      [] StartsWithAt(s, i, "false") -> ParseOk(PyBool(FALSE), i + 5)
      [] StartsWithAt(s, i, "null") -> ParseOk(PyNone, i + 4)
      [] OTHER -> ParseFail

\* the value that starts at i
ParseValue(s, i) == ValueAt(s, i, At(s, i))

\* the elements of an array from i on, after the elements acc
ParseArrayRest(s, i, acc) == ArrayNext(s, acc, ParseValue(s, SkipWs(s, i)))

\* the array after its element r
ArrayNext(s, acc, r) ==
    IF ~r.ok THEN ParseFail ELSE ArraySep(s, Append(acc, r.v), SkipWs(s, r.next))

\* the members of an object from i on, after the members of d
ParseObjectRest(s, i, d) == ObjectColon(s, d, ParseString(s, SkipWs(s, i)))

\* the member after its key
ObjectColon(s, d, key) ==
    IF ~key.ok THEN ParseFail ELSE ObjectValue(s, d, key.v.s, SkipWs(s, key.next))

\* the member named name whose colon is at c
ObjectValue(s, d, name, c) ==
    IF At(s, c) # ":" THEN ParseFail
    ELSE ObjectNext(s, d, name, ParseValue(s, SkipWs(s, c + 1)))

\* the object after the member name: r
ObjectNext(s, d, name, r) ==
    IF ~r.ok THEN ParseFail
    ELSE ObjectSep(s, DictSet(d, name, r.v), SkipWs(s, r.next))

\* the parse r of a whole text: nothing but whitespace may follow the value
WholeText(s, r) == IF r.ok /\ SkipWs(s, r.next) = Len(s) + 1 THEN r ELSE ParseFail

\* json.loads(s): ok is FALSE where it raises JSONDecodeError
json_loads(s) == WholeText(s, ParseValue(s, SkipWs(s, 1)))

-----------------------------------------------------------------------------
(* LLMClient.call_llm: the endpoint fails (requests.post or                *)
(* raise_for_status raises), or it returns a text from which call_llm      *)
(* extracts a JSON substring.                                              *)

\* The backquote, which a TLA+ string cannot hold: the texts of the model
\* write it as ^.
Tick == "^"
Fence == Tick \o Tick \o Tick

\* re.search of the pattern  Fence json \s* ({.*}) \s* Fence  with re.DOTALL:
\* the places where a match can start
FenceStarts(raw) ==
    {p \in 1..Len(raw) :
        /\ StartsWithAt(raw, p, Fence \o "json")
        /\ At(raw, SkipWs(raw, p + 7)) = "{"
        /\ \E r \in (SkipWs(raw, p + 7) + 1)..Len(raw) :
              At(raw, r) = "}" /\ StartsWithAt(raw, SkipWs(raw, r + 1), Fence)}

\* group(1) of the leftmost match, its .* greedy
FenceGroup(raw) ==
    LET p == CHOOSE x \in FenceStarts(raw) : \A y \in FenceStarts(raw) : x <= y
        q == SkipWs(raw, p + 7)
        ends == {r \in (q + 1)..Len(raw) :
                    At(raw, r) = "}" /\ StartsWithAt(raw, SkipWs(raw, r + 1), Fence)}
        r == CHOOSE x \in ends : \A y \in ends : y <= x
    IN  SubSeq(raw, q, r)

\* what call_llm returns for the endpoint's text raw
call_llm(raw) ==
    IF FenceStarts(raw) # {} THEN FenceGroup(raw)
    ELSE LET start_index == Find(raw, "{")
             end_index == RFind(raw, "}")
         IN  IF start_index # 0 /\ end_index # 0
             THEN (IF end_index < start_index THEN ""
                   ELSE SubSeq(raw, start_index, end_index))
             ELSE raw

LlmOk(text) == [ok |-> TRUE, text |-> text, exc |-> ""]
LlmRaised(exc) == [ok |-> FALSE, text |-> "", exc |-> exc]

\* requests.post raises ConnectionError, raise_for_status raises HTTPError
EndpointFailures == {LlmRaised("ConnectionError"), LlmRaised("HTTPError")}

\* every outcome of one call_llm whose endpoint answers with a text of raws
CallLlm(raws) == {LlmOk(call_llm(raw)) : raw \in raws} \cup EndpointFailures

\* the texts the endpoint answers with, by the prompt's kind
NarrativeRaws == {"The hall is quiet.", "Mara looks up."}
PresenceRaws == {"true", "False"}
RosterRaws == {"[]", "[\"Mara\"]", "[{\"name\": \"Ghost\"}]"}
NpcReplyRaws ==
    {"{\"name\": \"Mara\", \"action\": \"nods\", \"speech\": \"Hello.\"}",
     "^^^json\n{\"speech\": \"Hm.\"}\n^^^",
     "I refuse",
     "\"name action speech\"",
     "[\"name\", \"action\", \"speech\"]",
     "42"}
FollowupRaws == {"They fall silent."}
ChoiceRaws ==
    {"[\"Search the desk\", \"Explore the area\", \"Search the desk\"]",
     "[\"Talk to someone\"]",
     "no idea"}

-----------------------------------------------------------------------------
(* NPCInteractionModule *)

NpcKeys == <<"name", "action", "speech">>

\* the except branch of generate_npc_response
default_npc_reply(npc) ==
    PyDict(NpcKeys, <<DictGet(npc, "name", PyNone), PyStr("remains silent"),
                      PyStr("I have nothing to say at this moment.")>>)

\* for key in ["name", "action", "speech"]: if key not in npc_reply:
\* npc_reply[key] = "" ; from the i-th key on.  ok is FALSE where it raises.
RECURSIVE fill_keys(_, _)
fill_keys(npc_reply, i) ==
    IF i > Len(NpcKeys) THEN [ok |-> TRUE, v |-> npc_reply]
    ELSE IF InRaises(npc_reply) THEN [ok |-> FALSE, v |-> npc_reply]
    ELSE IF PyIn(NpcKeys[i], npc_reply) THEN fill_keys(npc_reply, i + 1)
    ELSE IF SetItemRaises(npc_reply) THEN [ok |-> FALSE, v |-> npc_reply]
    ELSE fill_keys(DictSet(npc_reply, NpcKeys[i], PyStr("")), i + 1)

\* the try block of generate_npc_response after json.loads gave parsed
npc_reply_from(npc, parsed) ==
    IF parsed.ok /\ fill_keys(parsed.v, 1).ok
    THEN fill_keys(parsed.v, 1).v ELSE default_npc_reply(npc)

\* the try block of generate_npc_response, for the text call_llm returned
npc_reply_of(npc, llm_response) == npc_reply_from(npc, json_loads(llm_response))

\* what a call of the module did: the exception it raised ("" for none), the
\* kind of the LLM call that failed, the LLM calls it made, the text the
\* last one returned, the texts the presence calls returned, and the value
\* it returned
SubOk(v, calls) ==
    [exc |-> "", failed |-> "", calls |-> calls, text |-> "", answers |-> <<>>,
     v |-> v]
SubRaised(exc, failed, calls) ==
    [exc |-> exc, failed |-> failed, calls |-> calls, text |-> "",
     answers |-> <<>>, v |-> PyNone]

\* generate_npc_response(npc, dialogue[, event_summary]): every outcome.
\* npc.get("motive") raises AttributeError for an npc that is no dict;
\* call_llm is outside the try block, so its exception propagates.
generate_npc_response(npc) ==
    IF npc.t # "dict" THEN {SubRaised("AttributeError", "", <<>>)}
    ELSE {IF o.ok
          THEN [SubOk(npc_reply_of(npc, o.text), <<"reply">>) EXCEPT !.text = o.text]
          ELSE SubRaised(o.exc, "reply", <<"reply">>) : o \in CallLlm(NpcReplyRaws)}

\* npc.get("name", "").split()[0] raises IndexError
first_name_raises(npc) == SplitIsEmpty(DictGet(npc, "name", PyStr("")).s)

\* npc.get("name", "").split()[0].lower()
npc_first(npc) == Lower(SplitFirst(DictGet(npc, "name", PyStr("")).s))

\* the NPCs of npcs whose first name occurs in text.lower(), in their order
RECURSIVE name_matches(_, _)
name_matches(npcs, text) ==
    IF npcs = <<>> THEN <<>>
    ELSE IF Contains(Lower(text), npc_first(npcs[1]))
    THEN <<npcs[1]>> \o name_matches(Tail(npcs), text)
    ELSE name_matches(Tail(npcs), text)

\* the second tier: one call per candidate, answers[i] its outcome.  The
\* loop stops at the first call that raises.
presence_filter(active, answers) ==
    LET bad == {i \in 1..Len(active) : ~answers[i].ok}
        first_bad == CHOOSE i \in bad : \A j \in bad : i <= j
        kept == {i \in 1..Len(active) : Contains(Lower(answers[i].text), "true")}
        RECURSIVE pick(_)
        pick(i) == IF i > Len(active) THEN <<>>
                   ELSE IF i \in kept THEN <<active[i]>> \o pick(i + 1)
                   ELSE pick(i + 1)
        filtered == pick(1)
    IN  IF bad # {}
        THEN SubRaised(answers[first_bad].exc, "presence",
                       [i \in 1..first_bad |-> "presence"])
        ELSE [SubOk(PyList(IF filtered # <<>> THEN filtered ELSE active),
                    [i \in 1..Len(active) |-> "presence"])
                 EXCEPT !.answers = [i \in 1..Len(active) |-> answers[i].text]]

\* the try block of the third tier after json.loads gave parsed
roster_from(parsed) ==
    IF parsed.ok /\ parsed.v.t = "list" THEN parsed.v ELSE PyList(<<>>)

\* the third tier: the roster-wide call
roster_choice(o) ==
    IF ~o.ok THEN SubRaised(o.exc, "roster", <<"roster">>)
    ELSE SubOk(roster_from(json_loads(o.text)), <<"roster">>)

\* determine_active_npcs(npcs, narrative, player_action): every outcome
determine_active_npcs(npcs, narrative, player_action) ==
    IF \E i \in 1..Len(npcs) : first_name_raises(npcs[i])
    THEN {SubRaised("IndexError", "", <<>>)}
    ELSE LET direct_matches == name_matches(npcs, player_action)
             active == name_matches(npcs, narrative)
         IN  IF direct_matches # <<>> THEN {SubOk(PyList(direct_matches), <<>>)}
             ELSE IF active # <<>>
             THEN {presence_filter(active, answers) :
                      answers \in [1..Len(active) -> CallLlm(PresenceRaws)]}
             ELSE {roster_choice(o) : o \in CallLlm(RosterRaws)}

-----------------------------------------------------------------------------
(* NarrativeManager.update_event_summary *)

\* max_length of the two engine variants
MainMaxLength == 2000
GameEngineMaxLength == 200

max_length(v) == IF v = "main" THEN MainMaxLength ELSE GameEngineMaxLength

\* a slip the code could have made: keep the head instead of the tail
update_event_summary_head(v, summary, new_event) ==
    LET updated_summary ==
            IF summary = "" THEN new_event
            ELSE summary \o " | " \o new_event
    IN  IF Len(updated_summary) > max_length(v)
        THEN Prefix(updated_summary, max_length(v))
        ELSE updated_summary

update_event_summary(v, summary, new_event) ==
    LET updated_summary ==
            IF summary = "" THEN new_event
            ELSE summary \o " | " \o new_event
    IN  IF Len(updated_summary) > max_length(v)
        THEN Suffix(updated_summary, max_length(v))
        ELSE updated_summary

-----------------------------------------------------------------------------
(* World content: world["locations"], each location with its name, its     *)
(* connections (names) and its NPCs (dicts).                               *)

Npc(name) ==
    PyDict(<<"name", "visual_description">>, <<PyStr(name), PyStr("a figure")>>)

Location(name, connections, npcs) ==
    [name |-> name, connections |-> connections, npcs |-> npcs]

Mara == Npc("Mara Vale")
Finn == Npc("Finn")

\* A (no NPCs) and B, connected to each other
WorldAB ==
    <<Location("A", <<"B">>, <<>>), Location("B", <<"A">>, <<Mara, Finn>>)>>

\* a first location with NPCs; Cellar is a connection that names no location
WorldHall ==
    <<Location("Hall", <<"Yard", "Cellar">>, <<Mara, Finn>>),
      Location("Yard", <<"Hall">>, <<>>)>>

\* a first location whose name is as long as the summary limit allows a
\* whole event to be
WorldLong(v) ==
    <<Location(Rep("L", max_length(v) - Len("Game started at ")), <<>>, <<>>)>>

WorldEmpty == <<>>

Worlds(v) == {WorldAB, WorldHall, WorldLong(v), WorldEmpty}

-----------------------------------------------------------------------------
(* One operation of the engine, as the set of its outcomes.  A frame is    *)
(* the engine's fields and the operation's locals while it runs: exc is    *)
(* the exception that ended it ("" for none), failed the kind of the LLM   *)
(* call that raised it, calls the LLM calls made, events the texts given   *)
(* to the event summary, replies the NPC replies generated.                *)

Frame(loc, summary) ==
    [loc |-> loc, summary |-> summary, exc |-> "", failed |-> "",
     calls |-> <<>>, text |-> "", events |-> <<>>, replies |-> <<>>,
     narrative |-> "", active_npcs |-> <<>>, npc_responses |-> <<>>,
     followup |-> "", dynamic_choices |-> <<>>, default_choices |-> <<>>,
     player_choice |-> "", chosen |-> "", returned |-> FALSE]

Raise(f, exc) == [f EXCEPT !.exc = exc]
Raised(f) == f.exc # ""
Return(f) == [f EXCEPT !.returned = TRUE]

\* the statements after a step: skipped by the frames that raised
Then(S, Op(_)) == UNION {IF Raised(f) THEN {f} ELSE Op(f) : f \in S}

\* the frame after a call of the NPC module or of the LLM client
Called(f, r) ==
    [f EXCEPT !.calls = @ \o r.calls, !.exc = r.exc, !.failed = r.failed,
              !.text = r.text]

\* self.llm_client.call_llm(prompt) for a prompt of the given kind
Call(f, kind, raws) ==
    {Called(f, IF o.ok THEN [SubOk(PyNone, <<kind>>) EXCEPT !.text = o.text]
               ELSE SubRaised(o.exc, kind, <<kind>>)) : o \in CallLlm(raws)}

\* self.event_summary = update_event_summary(self.event_summary, event)
AddEvent(v, f, event) ==
    [f EXCEPT !.summary = update_event_summary(v, @, event),
              !.events = Append(@, event)]

generate_narrative_segment(f) ==
    {IF Raised(g) THEN g ELSE [g EXCEPT !.narrative = "Narrative: " \o g.text] :
        g \in Call(f, "narrative", NarrativeRaws)}

generate_followup_narrative(f) ==
    {IF Raised(g) THEN g ELSE [g EXCEPT !.followup = "Update: " \o g.text] :
        g \in Call(f, "followup", FollowupRaws)}

\* isinstance(x, list) and all(isinstance(c, str) for c in x)
IsStrList(x) == x.t = "list" /\ \A i \in 1..Len(x.l) : x.l[i].t = "str"

\* the try block of generate_dynamic_choices after json.loads gave parsed
choices_from(parsed) ==
    IF parsed.ok /\ IsStrList(parsed.v)
    THEN [i \in 1..Len(parsed.v.l) |-> parsed.v.l[i].s]
    ELSE <<>>

\* the try block of generate_dynamic_choices
choices_of(llm_response) == choices_from(json_loads(llm_response))

\* call_llm is outside the try block, so its exception propagates
generate_dynamic_choices(f) ==
    {IF Raised(g) THEN g ELSE [g EXCEPT !.dynamic_choices = choices_of(g.text)] :
        g \in Call(f, "choices", ChoiceRaws)}

\* for choice in dynamic_choices: if choice not in default_options: append
RECURSIVE AppendNew(_, _)
AppendNew(options, choices) ==
    IF choices = <<>> THEN options
    ELSE AppendNew(IF InSeq(choices[1], options) THEN options
                   ELSE Append(options, choices[1]), Tail(choices))

\* [npc.get("name", "Unknown") for npc in npcs], the names being texts
NpcNames(npcs) ==
    [i \in 1..Len(npcs) |-> PyFormat(DictGet(npcs[i], "name", PyStr("Unknown")))]

\* the default options before the dynamic choices
base_options(talk_npcs, connections) ==
    <<"Explore the area">>
    \o (IF talk_npcs # <<>>
        THEN <<"Talk to someone (" \o Join(", ", NpcNames(talk_npcs)) \o ")">>
        ELSE <<>>)
    \o (IF connections # <<>>
        THEN <<"Move to a new location (" \o Join(", ", connections) \o ")">>
        ELSE <<"Move to a new location">>)

\* the default options list of a turn: npc.get raises AttributeError for an
\* NPC that is no dict
default_options_step(f, talk_npcs, connections) ==
    IF \E i \in 1..Len(talk_npcs) : talk_npcs[i].t # "dict"
    THEN {Raise(f, "AttributeError")}
    ELSE {IF Raised(g) THEN g
          ELSE [g EXCEPT !.default_choices =
                    AppendNew(base_options(talk_npcs, connections),
                              g.dynamic_choices)] :
             g \in generate_dynamic_choices(f)}

\* ChoiceManager.capture_player_choice(choices), line read from stdin
capture_player_choice(choices, line) ==
    LET user_input == Strip(line)
        selection == DigitsValue(user_input)
    IN  IF IsDigit(user_input)
        THEN (IF 1 <= selection /\ selection <= Len(choices)
              THEN choices[selection] ELSE user_input)
        ELSE IF user_input # "" THEN user_input
        ELSE IF choices # <<>> THEN choices[1] ELSE ""

\* the event of the captured choice
chose(v, f, next_choice) ==
    AddEvent(v, [f EXCEPT !.player_choice = next_choice],
             "Player chose: " \o next_choice)

\* next_choice = capture_player_choice(default_options), its event and the
\* return of the cycle's output, for every line of lines that stdin may give
choose_step(v, S, lines) ==
    UNION {IF Raised(f) THEN {f}
           ELSE {Return(chose(v, f, capture_player_choice(f.default_choices, line))) :
                    line \in lines} : f \in S}

\* index if 0 <= index < n, else 0
index_or_first(index, n) == IF 0 <= index /\ index < n THEN index ELSE 0

\* try: int(selection) - 1, in range or 0; except ValueError: 0
pick_index(selection, n) ==
    IF IsIntText(selection) THEN index_or_first(IntOf(selection) - 1, n) ELSE 0

Min(S) == CHOOSE x \in S : \A y \in S : x <= y

update_game_state(v, f, w, new_location_name, event) ==
    LET hits == {i \in 1..Len(w) : w[i].name = new_location_name}
        moved == IF new_location_name # "" /\ hits # {}
                 THEN [f EXCEPT !.loc = Min(hits)] ELSE f
    IN  IF event # "" THEN AddEvent(v, moved, event) ELSE moved

start_game(f, w) ==
    IF w # <<>>
    THEN [f EXCEPT !.loc = 1,
                   !.summary = "Game started at " \o w[1].name \o ".",
                   !.events = <<"Game started at " \o w[1].name \o ".">>]
    ELSE f

\* generate_npc_response(npc, ...) and what the caller does with the reply:
\* it keeps it, and where uses_get it calls reply.get, which a str and a
\* list do not have
respond(f, npc, uses_get) ==
    {LET g == Called(f, r)
         h == [g EXCEPT !.replies = Append(@, [npc |-> npc, text |-> r.text,
                                               reply |-> r.v]),
                        !.npc_responses = Append(@, r.v)]
     IN  IF r.exc # "" THEN g
         ELSE IF uses_get /\ r.v.t # "dict" THEN Raise(h, "AttributeError")
         ELSE h : r \in generate_npc_response(npc)}

\* for npc in active_npcs: response = generate_npc_response(npc, ...)
RECURSIVE respond_all(_, _, _)
respond_all(f, npcs, uses_get) ==
    IF npcs = <<>> THEN {f}
    ELSE UNION {IF Raised(g) THEN {g} ELSE respond_all(g, Tail(npcs), uses_get) :
                   g \in respond(f, npcs[1], uses_get)}

-----------------------------------------------------------------------------
(* GameEngine of src/main.py *)

ScenePhrase == "Scene updated after NPC interaction."

\* "Player talked to {chosen_npc.get('name')}: {dialogue}"
TalkedEvent(npc, dialogue) ==
    "Player talked to " \o PyFormat(DictGet(npc, "name", PyNone)) \o ": " \o dialogue

\* player_input.lower().startswith("talk to") or ...startswith("move to")
IsCommand(player_input) ==
    \/ StartsWith(Lower(player_input), "talk to")
    \/ StartsWith(Lower(player_input), "move to")

\* a slip the code could have made: the follow-up without its marker event
main_npc_phase_unmarked(v, f, available_npcs, player_input) ==
    UNION {LET g == Called(f, r)
           IN  IF r.exc # "" THEN {g}
               ELSE IF r.v.l = <<>> THEN {g}
               ELSE Then(respond_all([g EXCEPT !.active_npcs = r.v.l],
                                     r.v.l, TRUE),
                         generate_followup_narrative) :
              r \in determine_active_npcs(available_npcs, f.narrative, player_input)}

\* the NPC part of process_player_input, for an input that is no command
main_npc_phase(v, f, available_npcs, player_input) ==
    UNION {LET g == Called(f, r)
           IN  IF r.exc # "" THEN {g}
               ELSE IF r.v.l = <<>> THEN {g}
               ELSE {IF Raised(h) THEN h ELSE AddEvent(v, h, ScenePhrase) :
                        h \in Then(respond_all([g EXCEPT !.active_npcs = r.v.l],
                                               r.v.l, TRUE),
                                   generate_followup_narrative)} :
              r \in determine_active_npcs(available_npcs, f.narrative, player_input)}

\* generate_default_choices(player_input)
generate_default_choices(f, w) ==
    IF f.loc = 0 THEN {Raise(f, "AttributeError")}
    ELSE default_options_step(f, w[f.loc].npcs, w[f.loc].connections)

\* process_player_input(player_input); lines is what stdin may give to
\* capture_player_choice
main_process_player_input(v, f, w, player_input, lines) ==
    IF f.loc = 0 THEN {Raise(f, "AttributeError")}
    ELSE LET loc == w[f.loc]
             S1 == generate_narrative_segment(f)
             S2 == IF IsCommand(player_input) THEN S1
                   ELSE Then(S1, LAMBDA g :
                                main_npc_phase(v, g, loc.npcs, player_input))
             S3 == Then(S2, LAMBDA g :
                                default_options_step(g, loc.npcs, loc.connections))
         IN  choose_step(v, S3, lines)

\* handle_talk_option(active_npcs, npc_index, dialogue, player_choice), a the
\* adapter that calls it: the global "engine" of line 322 exists only where
\* main.py is the program, not where app.py imports it
main_handle_talk_option(v, a, f, w, active_npcs, npc_index, dialogue, lines) ==
    IF active_npcs = <<>> THEN {Return(f)}
    ELSE IF npc_index.t # "int" THEN {Raise(f, "TypeError")}
    ELSE LET chosen_npc ==
                 IF 0 <= npc_index.n /\ npc_index.n < Len(active_npcs)
                 THEN active_npcs[npc_index.n + 1] ELSE active_npcs[1]
             f1 == [f EXCEPT !.chosen = PyFormat(DictGet(chosen_npc, "name", PyNone))]
             S1 == respond(f1, chosen_npc, FALSE)
             S2 == Then(S1, LAMBDA g :
                       generate_followup_narrative(
                           AddEvent(v, g, TalkedEvent(chosen_npc, dialogue))))
             S3 == Then(S2, LAMBDA g :
                       LET h == AddEvent(v, g, ScenePhrase)
                       IN  IF a = "http" THEN {Raise(h, "NameError")}
                           ELSE generate_default_choices(h, w))
         IN  choose_step(v, S3, lines)

\* handle_move_option(connections); selection is read from stdin, and then
\* one of lines
main_handle_move_option(v, a, f, w, connections, selection, lines) ==
    IF connections = <<>> THEN {Return(f)}
    ELSE LET chosen_location ==
                 connections[pick_index(selection, Len(connections)) + 1]
             f1 == update_game_state(v, [f EXCEPT !.chosen = chosen_location], w,
                                     chosen_location, "Moved to " \o chosen_location)
             S1 == IF f1.loc = 0 THEN {Raise(f1, "TypeError")}
                   ELSE generate_narrative_segment(f1)
             S2 == Then(S1, LAMBDA g :
                       IF a = "http" THEN {Raise(g, "NameError")}
                       ELSE generate_default_choices(g, w))
         IN  choose_step(v, S2, lines)

-----------------------------------------------------------------------------
(* GameEngine of src/game_engine.py *)

\* handle_talk_option(active_npcs); selection and dialogue are read from stdin
ge_handle_talk_option(v, f, active_npcs, selection, dialogue) ==
    IF active_npcs = <<>> THEN {f}
    ELSE LET chosen_npc == active_npcs[pick_index(selection, Len(active_npcs)) + 1]
             f1 == [f EXCEPT !.chosen = PyFormat(DictGet(chosen_npc, "name", PyNone))]
             S1 == respond(f1, chosen_npc, TRUE)
             S2 == Then(S1, LAMBDA g :
                       generate_followup_narrative(
                           AddEvent(v, g, TalkedEvent(chosen_npc, dialogue))))
         IN  {IF Raised(g) THEN g ELSE AddEvent(v, g, ScenePhrase) : g \in S2}

\* handle_move_option(connections); selection is read from stdin
ge_handle_move_option(v, f, w, connections, selection) ==
    IF connections = <<>> THEN {f}
    ELSE LET chosen_location ==
                 connections[pick_index(selection, Len(connections)) + 1]
             f1 == update_game_state(v, [f EXCEPT !.chosen = chosen_location], w,
                                     chosen_location, "Moved to " \o chosen_location)
         IN  generate_narrative_segment(f1)

\* the NPC part of the normal narrative cycle
ge_npc_phase(v, f, available_npcs, player_input) ==
    UNION {LET g == Called(f, r)
               active_npcs == r.v.l
           IN  IF r.exc # "" THEN {g}
               ELSE IF active_npcs # <<>>
                       /\ ~StartsWith(Lower(player_input), "talk to")
               THEN {IF Raised(h) THEN h ELSE AddEvent(v, h, ScenePhrase) :
                        h \in Then(respond_all([g EXCEPT !.active_npcs = active_npcs],
                                               active_npcs, FALSE),
                                   generate_followup_narrative)}
               ELSE {[g EXCEPT !.active_npcs = active_npcs]} :
              r \in determine_active_npcs(available_npcs, f.narrative, player_input)}

\* process_player_input(player_input)
ge_process_player_input(v, f, w, player_input, selection, dialogue, lines) ==
    IF f.loc = 0 THEN {Raise(f, "AttributeError")}
    ELSE LET loc == w[f.loc]
             S == IF Contains(Lower(player_input), "talk to")
                  THEN Then(ge_handle_talk_option(v, f, loc.npcs, selection, dialogue),
                            LAMBDA g : default_options_step(g, loc.npcs,
                                                            loc.connections))
                  ELSE IF Contains(Lower(player_input), "move to")
                  THEN Then(ge_handle_move_option(v, f, w, loc.connections, selection),
                            LAMBDA g : default_options_step(g, w[g.loc].npcs,
                                                            w[g.loc].connections))
                  ELSE Then(Then(generate_narrative_segment(f), LAMBDA g :
                                    ge_npc_phase(v, g, loc.npcs, player_input)),
                            LAMBDA g : default_options_step(g, g.active_npcs,
                                                            loc.connections))
         IN  choose_step(v, S, lines)

-----------------------------------------------------------------------------
(* The session: a GameEngine and its caller.  The caller is the main loop  *)
(* of the engine's own file (adapter "terminal") or, for src/main.py, the  *)
(* Flask handlers of src/assets/npc/app.py (adapter "http").               *)

\* operations of one session
MaxTurns == 3

Adapters == {"terminal", "http"}

\* what the player types as an action
PlayerInputs == {"explore", "hello mara", "talk to Mara", "move to B"}

\* what stdin gives to capture_player_choice
ChoiceLines == {"2", "3", "look", "exit"}

\* what stdin gives as the number of an NPC or of a destination
Selections == {"1", "2", "0", "abc"}

\* the npc_index of a /handle_talk request: data.get('npc_index')
HttpIndexes == {PyInt(0), PyInt(1), PyInt(5), PyInt(0 - 1), PyNone, PyStr("1")}

\* the connections of a /handle_move request
HttpConnections == {<<>>, <<"B">>, <<"Yard", "Cellar">>}

Dialogues == {"hi"}

\* the record of an operation: what it was given, the engine's fields
\* before it, and its frame at its end
Observed(op, branch, player_input, selection, dialogue, candidates, f) ==
    [op |-> op, branch |-> branch, player_input |-> player_input,
     selection |-> selection, dialogue |-> dialogue, candidates |-> candidates,
     pre_loc |-> current_location, pre_summary |-> event_summary,
     loc |-> f.loc, summary |-> f.summary, exc |-> f.exc, failed |-> f.failed,
     calls |-> f.calls, events |-> f.events, replies |-> f.replies,
     narrative |-> f.narrative, npc_responses |-> f.npc_responses,
     followup |-> f.followup, default_choices |-> f.default_choices,
     player_choice |-> f.player_choice, chosen |-> f.chosen,
     returned |-> f.returned]

PureIdle == call = [fn |-> "none"] /\ ret = [done |-> FALSE]

StoryIdle == story = [engine |-> "none"]

FilesIdle == files = [exists |-> FALSE, text |-> ""]

\* no Flask application
HttpIdle == http = [server |-> "none"]

\* no window
UiIdle == ui = [window |-> "none"]

EngineIdle ==
    /\ variant = "main" /\ adapter = "terminal" /\ world = <<>>
    /\ started = FALSE /\ current_location = 0 /\ event_summary = ""
    /\ next_action = "" /\ crashed = FALSE /\ turns = 0
    /\ last = [op |-> "none"]

\* GameEngine.__init__
EngineInit ==
    /\ PureIdle /\ StoryIdle /\ FilesIdle /\ HttpIdle /\ UiIdle
    /\ variant \in {"main", "game_engine"}
    /\ adapter \in Adapters
    /\ adapter = "http" => variant = "main"
    /\ world \in Worlds(variant)
    /\ started = FALSE /\ current_location = 0 /\ event_summary = ""
    /\ next_action = "" /\ crashed = FALSE /\ turns = 0
    /\ last = Observed("__init__", "", "", PyNone, "", <<>>, Frame(0, ""))

\* the end of an operation: the engine's fields are the frame's; an
\* exception ends the terminal process, the http handlers answer it with 500
Finish(op, branch, player_input, selection, dialogue, candidates, f, na) ==
    /\ current_location' = f.loc
    /\ event_summary' = f.summary
    /\ next_action' = na
    /\ crashed' = (adapter = "terminal" /\ Raised(f))
    /\ started' = TRUE
    /\ last' = Observed(op, branch, player_input, selection, dialogue, candidates, f)
    /\ turns' = turns + 1
    /\ UNCHANGED <<call, ret, variant, adapter, world, story, files, http, ui>>

Running(v, a) ==
    variant = v /\ adapter = a /\ started /\ ~crashed /\ turns < MaxTurns

\* the frame an operation starts with
Now == Frame(current_location, event_summary)

\* engine.start_game() of the main blocks; /start_game of app.py, which
\* makes a new engine, starts it and asks it for the default choices
StartGame ==
    /\ ~crashed /\ turns < MaxTurns
    /\ adapter = "terminal" => ~started
    /\ LET f1 == start_game(Frame(0, ""), world)
           S == IF adapter = "terminal" THEN {Return(f1)}
                ELSE IF f1.loc = 0 THEN {Raise(f1, "TypeError")}
                ELSE {IF Raised(g) THEN g ELSE Return(g) :
                         g \in generate_default_choices(f1, world)}
       IN  \E f \in S :
              Finish("start_game", "", "", PyNone, "", <<>>, f, "Explore the area")

\* while next_action.lower() != "exit" of src/main.py
MainLooping == Running("main", "terminal") /\ Lower(next_action) # "exit"

\* the main loop of src/main.py, next_action a talk command
TerminalTalk ==
    /\ MainLooping
    /\ StartsWith(Lower(next_action), "talk to")
    /\ IF current_location = 0
       THEN Finish("main_loop", "talk", next_action, PyNone, "", <<>>,
                   Raise(Now, "AttributeError"), next_action)
       ELSE LET available_npcs == world[current_location].npcs
            IN  IF available_npcs = <<>>
                THEN Finish("main_loop", "talk", next_action, PyNone, "", <<>>,
                            Now, next_action)
                ELSE \E selection \in Selections, dialogue \in Dialogues :
                        \E f \in main_handle_talk_option(variant, adapter, Now, world,
                                    available_npcs,
                                    PyInt(pick_index(selection, Len(available_npcs))),
                                    dialogue, ChoiceLines) :
                           Finish("handle_talk_option", "talk", next_action,
                                  PyStr(selection), dialogue, NpcNames(available_npcs),
                                  f, IF f.returned THEN f.player_choice
                                     ELSE next_action)

\* the main loop of src/main.py, next_action a move command
TerminalMove ==
    /\ MainLooping
    /\ ~StartsWith(Lower(next_action), "talk to")
    /\ StartsWith(Lower(next_action), "move to")
    /\ IF current_location = 0
       THEN Finish("main_loop", "move", next_action, PyNone, "", <<>>,
                   Raise(Now, "AttributeError"), next_action)
       ELSE LET connections == world[current_location].connections
            IN  IF connections = <<>>
                THEN Finish("main_loop", "move", next_action, PyNone, "", <<>>,
                            Now, next_action)
                ELSE \E selection \in Selections :
                        \E f \in main_handle_move_option(variant, adapter, Now, world,
                                    connections, selection, ChoiceLines) :
                           Finish("handle_move_option", "move", next_action,
                                  PyStr(selection), "", connections, f,
                                  IF f.returned THEN f.player_choice
                                  ELSE next_action)

\* the main loop of src/main.py, any other next_action
TerminalProcess ==
    /\ MainLooping
    /\ ~IsCommand(next_action)
    /\ \E f \in main_process_player_input(variant, Now, world, next_action,
                                            ChoiceLines) :
             Finish("process_player_input", "generic", next_action, PyNone, "",
                    <<>>, f, IF f.returned THEN f.player_choice ELSE next_action)

\* the branch of src/game_engine.py's process_player_input for an input
ge_branch(player_input) ==
    IF Contains(Lower(player_input), "talk to") THEN "talk"
    ELSE IF Contains(Lower(player_input), "move to") THEN "move"
    ELSE "generic"

\* the candidates the branch offers at the current location
ge_candidates(branch) ==
    IF current_location = 0 \/ branch = "generic" THEN <<>>
    ELSE IF branch = "talk" THEN NpcNames(world[current_location].npcs)
    ELSE world[current_location].connections

\* process_player_input(player_input) in the main loop of
\* src/game_engine.py: stdin is asked for a selection where the branch has
\* candidates, and for a dialogue where they are NPCs
GeTurn(player_input, branch, candidates) ==
    \E selection \in IF candidates # <<>> THEN Selections ELSE {""},
       dialogue \in IF candidates # <<>> /\ branch = "talk" THEN Dialogues ELSE {""} :
       \E f \in ge_process_player_input(variant, Now, world, player_input,
                                        selection, dialogue, ChoiceLines) :
          Finish("process_player_input", branch, player_input,
                 IF candidates # <<>> THEN PyStr(selection) ELSE PyNone, dialogue,
                 candidates, f, next_action)

\* the main loop of src/game_engine.py: an action is read and processed
EngineTurn ==
    /\ Running("game_engine", "terminal")
    /\ \E player_input \in PlayerInputs :
          GeTurn(player_input, ge_branch(player_input),
                 ge_candidates(ge_branch(player_input)))

\* /process_input of app.py
HttpProcessInput ==
    /\ Running("main", "http")
    /\ \E player_input \in PlayerInputs :
          \E f \in main_process_player_input(variant, Now, world, player_input,
                                            ChoiceLines) :
             Finish("process_player_input", "generic", player_input, PyNone, "",
                    <<>>, f, next_action)

\* /handle_talk of app.py
HttpHandleTalk ==
    /\ Running("main", "http")
    /\ IF current_location = 0
       THEN Finish("handle_talk_option", "talk", "", PyNone, "", <<>>,
                   Raise(Now, "AttributeError"), next_action)
       ELSE LET available_npcs == world[current_location].npcs
            IN  \E npc_index \in HttpIndexes, dialogue \in Dialogues :
                   \E f \in main_handle_talk_option(variant, adapter, Now, world,
                               available_npcs, npc_index, dialogue, ChoiceLines) :
                      Finish("handle_talk_option", "talk", "", npc_index, dialogue,
                             NpcNames(available_npcs), f, next_action)

\* /handle_move of app.py
HttpHandleMove ==
    /\ Running("main", "http")
    /\ \E connections \in HttpConnections, selection \in Selections :
          \E f \in main_handle_move_option(variant, adapter, Now, world,
                      connections, selection, ChoiceLines) :
             Finish("handle_move_option", "move", "", PyStr(selection), "",
                    connections, f, next_action)

EngineNext ==
    \/ StartGame
    \/ TerminalTalk
    \/ TerminalMove
    \/ TerminalProcess
    \/ EngineTurn
    \/ HttpProcessInput
    \/ HttpHandleTalk
    \/ HttpHandleMove

SpecEngine == EngineInit /\ [][EngineNext]_vars

\* how many operations a session of start_game and process_player_input
\* calls is followed for
MaxGenericTurns == 2

\* a session on which only start_game and process_player_input are called
GenericStart == turns < MaxGenericTurns /\ StartGame

GenericTerminal == turns < MaxGenericTurns /\ TerminalProcess

GenericEngine == turns < MaxGenericTurns /\ EngineTurn

GenericHttp == turns < MaxGenericTurns /\ HttpProcessInput

GenericNext ==
    \/ GenericStart
    \/ GenericTerminal
    \/ GenericEngine
    \/ GenericHttp

SpecGeneric == EngineInit /\ [][GenericNext]_vars

-----------------------------------------------------------------------------
(* The pure-function harness: Init draws the arguments, the action applies *)
(* the function.                                                           *)

NoRet == [done |-> FALSE]

\* how far around max_length the lengths of the drawn texts go
Slack == 2

Variants == {"main", "game_engine"}

\* lengths around the limit of variant v
LengthsNear(v) == {n \in (max_length(v) - Slack - 3)..(max_length(v) + Slack) : n >= 0}

SummaryArgs(v) ==
    {"", "Game started at A."} \cup {Rep("s", n) : n \in LengthsNear(v)}

EventArgs(v) ==
    {"Scene updated after NPC interaction.", "Player chose: 1", "Moved to B"}
        \cup {"E" \o Rep("e", n - 1) : n \in LengthsNear(v) \ {0}}

SummaryInit ==
    /\ \E v \in Variants :
         \E s \in SummaryArgs(v), e \in EventArgs(v) :
            call = [fn |-> "update_event_summary", variant |-> v,
                    event_summary |-> s, new_event |-> e]
    /\ ret = NoRet
    /\ EngineIdle /\ StoryIdle /\ FilesIdle /\ HttpIdle /\ UiIdle

ApplyUpdateEventSummary ==
    /\ call.fn = "update_event_summary"
    /\ ~ret.done
    /\ ret' = [done |-> TRUE,
               value |-> update_event_summary(call.variant, call.event_summary,
                                              call.new_event)]
    /\ UNCHANGED <<call, engineVars, story, files, http, ui>>

SummaryNext == ApplyUpdateEventSummary

SpecSummary == SummaryInit /\ [][SummaryNext]_vars

-----------------------------------------------------------------------------
(* C3 *)

\* C3 (as stated): after every update_event_summary(summary, new_event) the
\* returned summary ends with the complete new_event text.
C3_EndsWithWholeEvent ==
    ret.done => EndsWith(ret.value, call.new_event)

\* C3 (amended): the returned summary ends with the complete new_event when
\* new_event is at most max_length characters long; a longer new_event is
\* cut to its own last max_length characters.
C3_SuffixPreserving ==
    ret.done =>
        IF Len(call.new_event) <= max_length(call.variant)
        THEN EndsWith(ret.value, call.new_event)
        ELSE ret.value = Suffix(call.new_event, max_length(call.variant))

\* a summary was truncated and still ends with the whole event
C3_Witness ==
    /\ ret.done
    /\ Len(call.event_summary) + 3 + Len(call.new_event) > max_length(call.variant)
    /\ call.event_summary # ""
    /\ Len(call.new_event) <= max_length(call.variant)
    /\ Len(ret.value) = max_length(call.variant)

-----------------------------------------------------------------------------
(* determine_active_npcs on its own: a roster, a narrative and a player    *)
(* text are drawn, and the function is applied once.                        *)

\* an NPC record without a name, and one whose name is blank
Anon == PyDict(<<"visual_description">>, <<PyStr("a figure")>>)
Blank == Npc("  ")

Rosters ==
    {<<>>, <<Mara>>, <<Mara, Finn>>, <<Finn, Mara>>, <<Mara, Anon>>,
     <<Blank, Finn>>}

Narratives ==
    {"Narrative: The hall is quiet.", "Narrative: Finn and Mara wait.",
     "Narrative: Mara looks up."}

PlayerTexts == {"talk to Mara", "ask mara and finn", "look around", "FINN?"}

ActiveInit ==
    /\ \E npcs \in Rosters, narrative \in Narratives, player_action \in PlayerTexts :
          call = [fn |-> "determine_active_npcs", npcs |-> npcs,
                  narrative |-> narrative, player_action |-> player_action]
    /\ ret = NoRet
    /\ EngineIdle /\ StoryIdle /\ FilesIdle /\ HttpIdle /\ UiIdle

ApplyDetermineActiveNpcs ==
    /\ call.fn = "determine_active_npcs"
    /\ ~ret.done
    /\ \E r \in determine_active_npcs(call.npcs, call.narrative, call.player_action) :
          ret' = [done |-> TRUE, value |-> r]
    /\ UNCHANGED <<call, engineVars, story, files, http, ui>>

ActiveNext == ApplyDetermineActiveNpcs

SpecActive == ActiveInit /\ [][ActiveNext]_vars

-----------------------------------------------------------------------------
(* C7 *)

\* the NPC has a first name token and its lower-cased form occurs in the
\* lower-cased text
NamedIn(npc, text) ==
    /\ ~SplitIsEmpty(DictGet(npc, "name", PyStr("")).s)
    /\ Contains(Lower(text), Lower(SplitFirst(DictGet(npc, "name", PyStr("")).s)))

NamedByPlayer(npc) == NamedIn(npc, call.player_action)

\* C7: if the lower-cased first name token of at least one roster NPC
\* occurs in the lower-cased player text, determine_active_npcs returns
\* exactly those NPCs in roster order, whatever the narrative, and makes no
\* LLM call.
C7_DirectMatchesReturned ==
    (/\ ret.done
     /\ \E i \in 1..Len(call.npcs) : NamedByPlayer(call.npcs[i]))
        => /\ ret.value.exc = ""
           /\ ret.value.v = PyList(SelectSeq(call.npcs, NamedByPlayer))
           /\ ret.value.calls = <<>>

-----------------------------------------------------------------------------
(* WorldGenerator.save_world / load_world of src/world_generator.py         *)
(* ("world_generator") and of src/gemini/world_generator.py ("gemini").     *)
(* A WorldModel is the Python value model_dump() gives for it; the file is  *)
(* the JSON text written with indent=2, for texts without characters that  *)
(* JSON escapes.                                                            *)

Generators == {"world_generator", "gemini"}

\* the fields of the pydantic models, in their order
Field(name, type) == [name |-> name, type |-> type]

Fields(model) ==
    CASE model = "WorldModel" ->
            <<Field("world_name", "str"), Field("locations", "List[LocationModel]"),
              Field("npcs", "List[NPCModel]"),
              Field("player_character", "PlayerCharacterModel")>>
      [] model = "LocationModel" ->
            <<Field("id", "str"), Field("name", "str"), Field("type", "str"),
              Field("description", "str"), Field("connected_to", "List[str]"),
              Field("primary_npcs", "List[str]"),
              Field("secondary_npcs", "List[str]"), Field("plot", "LocationPlot")>>
      [] model = "LocationPlot" ->
            <<Field("title", "str"), Field("description", "str"),
              Field("key_npcs", "List[str]"), Field("status", "str")>>
      [] model = "NPCModel" ->
            <<Field("id", "str"), Field("name", "str"), Field("description", "str"),
              Field("personality", "str")>>
      [] model = "PlayerCharacterModel" ->
            <<Field("name", "str"), Field("description", "str"),
              Field("personality", "str")>>
      [] model = "NPCReactionModel" ->
            <<Field("npc_id", "str"), Field("npc_name", "Optional[str]"),
              Field("message", "str"), Field("reaction_description", "str")>>
      [] model = "GameMasterBeatModel" ->
            <<Field("gm_narration", "str"), Field("present_npc_ids", "List[str]"),
              Field("suggested_actions", "List[str]"),
              Field("npc_reactions", "List[NPCReactionModel]"),
              Field("location_change", "Optional[str]"),
              Field("plot_update", "Optional[str]"),
              Field("environment_details", "Optional[str]")>>
      [] model = "DirectNPCResponseModel" ->
            <<Field("dialogue", "str"), Field("action", "Optional[str]"),
              Field("attitude", "str")>>

IsListType(type) == StartsWith(type, "List[")

\* X of List[X]
ElementType(type) == SubSeq(type, 6, Len(type) - 1)

\* the type of the field name of model
TypeOf(model, name) ==
    Fields(model)[CHOOSE i \in 1..Len(Fields(model)) : Fields(model)[i].name = name].type

\* gemini: status: str = Field("Active", ...); an Optional field is
\* declared with Field(None, ...)
HasDefault(g, model, name) ==
    \/ g = "gemini" /\ model = "LocationPlot" /\ name = "status"
    \/ TypeOf(model, name) = "Optional[str]"

\* the value of the field in d, its default where it has one and is absent
FieldValue(g, model, name, d) ==
    DictGet(d, name, IF HasDefault(g, model, name)
                          /\ TypeOf(model, name) # "Optional[str]"
                     THEN PyStr("Active") ELSE PyNone)

\* type.model_validate(x) does not raise
RECURSIVE Validates(_, _, _)
Validates(g, type, x) ==
    IF type = "str" THEN x.t = "str"
    ELSE IF type = "Optional[str]" THEN x.t \in {"str", "none"}
    ELSE IF IsListType(type)
    THEN x.t = "list"
         /\ \A i \in 1..Len(x.l) : Validates(g, ElementType(type), x.l[i])
    ELSE x.t = "dict"
         /\ \A i \in 1..Len(Fields(type)) :
               /\ InSeq(Fields(type)[i].name, x.k)
                    \/ HasDefault(g, type, Fields(type)[i].name)
               /\ Validates(g, Fields(type)[i].type,
                            FieldValue(g, type, Fields(type)[i].name, x))

\* what type.model_validate(x) builds: the declared fields, in their order
RECURSIVE Validated(_, _, _)
Validated(g, type, x) ==
    IF type \in {"str", "Optional[str]"} THEN x
    ELSE IF IsListType(type)
    THEN PyList([i \in 1..Len(x.l) |-> Validated(g, ElementType(type), x.l[i])])
    ELSE PyDict([i \in 1..Len(Fields(type)) |-> Fields(type)[i].name],
                [i \in 1..Len(Fields(type)) |->
                    Validated(g, Fields(type)[i].type,
                              FieldValue(g, type, Fields(type)[i].name, x))])

\* json.dumps(x, indent=2), continued at nesting depth
RECURSIVE json_dumps(_, _), dumps_items(_, _, _), dumps_pairs(_, _, _)
json_dumps(x, depth) ==
    CASE x.t = "none" -> "null"
      [] x.t = "str"  -> "\"" \o x.s \o "\""
      [] x.t = "list" ->
            IF x.l = <<>> THEN "[]"
            ELSE "[\n" \o dumps_items(x.l, 1, depth + 1) \o "\n"
                 \o Rep(" ", 2 * depth) \o "]"
      [] x.t = "dict" ->
            IF x.k = <<>> THEN "{}"
            ELSE "{\n" \o dumps_pairs(x, 1, depth + 1) \o "\n"
                 \o Rep(" ", 2 * depth) \o "}"

dumps_items(l, i, depth) ==
    Rep(" ", 2 * depth) \o json_dumps(l[i], depth)
    \o (IF i < Len(l) THEN ",\n" \o dumps_items(l, i + 1, depth) ELSE "")

dumps_pairs(d, i, depth) ==
    Rep(" ", 2 * depth) \o "\"" \o d.k[i] \o "\": " \o json_dumps(d.v[i], depth)
    \o (IF i < Len(d.k) THEN ",\n" \o dumps_pairs(d, i + 1, depth) ELSE "")

\* WorldModel values
Strs(texts) == PyList([i \in 1..Len(texts) |-> PyStr(texts[i])])

PlotOf(title, key_npcs) ==
    PyDict(<<"title", "description", "key_npcs", "status">>,
           <<PyStr(title), PyStr("a plot"), Strs(key_npcs), PyStr("Inactive")>>)

LocationOf(id, links, primary_npcs) ==
    PyDict(<<"id", "name", "type", "description", "connected_to", "primary_npcs",
             "secondary_npcs", "plot">>,
           <<PyStr(id), PyStr("The " \o id), PyStr("Tavern"), PyStr("a place"),
             Strs(links), Strs(primary_npcs), Strs(<<>>),
             PlotOf("Trouble at " \o id, primary_npcs)>>)

NpcOf(id) ==
    PyDict(<<"id", "name", "description", "personality">>,
           <<PyStr(id), PyStr("N. " \o id), PyStr("a figure"), PyStr("Gruff")>>)

WorldOf(world_name, locations, npcs) ==
    PyDict(<<"world_name", "locations", "npcs", "player_character">>,
           <<PyStr(world_name), PyList(locations), PyList(npcs),
             PyDict(<<"name", "description", "personality">>,
                    <<PyStr("Tom"), PyStr("a traveller"), PyStr("Bold")>>)>>)

Inn == WorldOf("Inn", <<LocationOf("tavern", <<>>, <<"mara">>)>>, <<NpcOf("mara")>>)

Vale ==
    WorldOf("Vale", <<LocationOf("tavern", <<"forest">>, <<"mara">>),
                      LocationOf("forest", <<"tavern">>, <<>>)>>,
            <<NpcOf("mara"), NpcOf("finn")>>)

SavedWorlds ==
    {WorldOf("Void", <<>>, <<>>),
     Inn,
     WorldOf("Keep", <<LocationOf("keep", <<"keep">>, <<>>)>>, <<>>),
     Vale}

\* the file: whether it exists, and its text
NoFile == [exists |-> FALSE, text |-> ""]
FileOf(text) == [exists |-> TRUE, text |-> text]

\* the target before save_world: absent, an older save, or no JSON
PriorFiles == {NoFile, FileOf(json_dumps(WorldOf("Old", <<>>, <<>>), 0)), FileOf("{")}

\* open(filename, 'w') and the write of text: the text is written; open
\* fails and leaves the file; the write fails after open truncated the
\* file, with nothing or a part of the text written
write_file(file, text) ==
    {[file |-> FileOf(text), failed |-> FALSE],
     [file |-> file, failed |-> TRUE],
     [file |-> FileOf(""), failed |-> TRUE],
     [file |-> FileOf(Prefix(text, Len(text) \div 2)), failed |-> TRUE]}

\* world_generator.py save_world: except Exception: raise
wg_save_world(world_data, file) ==
    {[file |-> o.file, exc |-> IF o.failed THEN "OSError" ELSE ""] :
        o \in write_file(file, json_dumps(world_data, 0))}

\* gemini save_world: except IOError / except Exception: print only
gm_save_world(world_data, file) ==
    {[file |-> o.file, exc |-> ""] :
        o \in write_file(file, json_dumps(world_data, 0))}

save_world(g, world_data, file) ==
    IF g = "gemini" THEN gm_save_world(world_data, file)
    ELSE wg_save_world(world_data, file)

\* load_world after the file was read and json.loads gave parsed: gemini
\* returns None on every error, world_generator.py raises it again
loaded(g, parsed) ==
    IF parsed.ok /\ Validates(g, "WorldModel", parsed.v)
    THEN [value |-> Validated(g, "WorldModel", parsed.v), exc |-> ""]
    ELSE [value |-> PyNone,
          exc |-> IF g = "gemini" THEN ""
                  ELSE IF parsed.ok THEN "ValidationError" ELSE "JSONDecodeError"]

\* load_world(filename): FileNotFoundError gives None
load_world(g, file) ==
    IF ~file.exists THEN [value |-> PyNone, exc |-> ""]
    ELSE loaded(g, json_loads(file.text))

\* the fields of a WorldModel value
Attr(x, name) == DictGet(x, name, PyNone)
StrSet(x) == {x.l[i].s : i \in 1..Len(x.l)}
Items(x) == {x.l[i] : i \in 1..Len(x.l)}
Ids(x) == {Attr(item, "id").s : item \in Items(x)}

\* what the endpoint does with the request of generate_world: requests.post
\* times out, cannot connect, answers with an error status, or answers
\* with a body whose "response" is a text
Endpoint(kind) == [kind |-> kind, text |-> ""]
Reply(text) == [kind |-> "reply", text |-> text]

\* a world whose locations name an unknown location and an unknown NPC
Rift ==
    WorldOf("Rift", <<LocationOf("tavern", <<"abyss">>, <<"ghost">>)>>,
            <<NpcOf("mara")>>)

\* JSON of another shape than WorldModel's
Shapeless == PyDict(<<"world_name">>, <<PyStr("Old")>>)

WorldReplies ==
    {"", "I cannot do that.", json_dumps(Shapeless, 0), json_dumps(Inn, 0),
     json_dumps(Rift, 0), Fence \o "json\n" \o json_dumps(Inn, 0) \o "\n" \o Fence}

WorldEndpoint ==
    {Endpoint("Timeout"), Endpoint("ConnectionError"), Endpoint("HTTPError")}
    \cup {Reply(text) : text \in WorldReplies}

Returned(value) == [value |-> value, exc |-> ""]
Failed(exc) == [value |-> PyNone, exc |-> exc]

\* the validation of a parsed reply against model_class
validated_reply(g, model_class, parsed, exc) ==
    IF parsed.ok /\ Validates(g, model_class, parsed.v)
    THEN Returned(Validated(g, model_class, parsed.v))
    ELSE Failed(exc)

\* gemini WorldGenerator._query_llm(prompt, WorldModel): a Timeout becomes
\* TimeoutError, every other RequestException ConnectionError; an empty
\* text, no JSON and JSON of another shape become ValueError
gm_world_query_llm(e) ==
    IF e.kind = "Timeout" THEN Failed("TimeoutError")
    ELSE IF e.kind # "reply" THEN Failed("ConnectionError")
    ELSE IF Strip(e.text) = "" THEN Failed("ValueError")
    ELSE validated_reply("gemini", "WorldModel",
            json_loads(RStripChars(LStripChars(Strip(e.text), Tick \o "json"),
                                   Tick)),
            "ValueError")

\* world_generator.py _query_llm and model_validate_json: the exception of
\* requests.post is not caught, an error body has no "response", and the
\* text is validated as it is
wg_world_query_llm(e) ==
    IF e.kind \in {"Timeout", "ConnectionError"} THEN Failed(e.kind)
    ELSE IF e.kind = "HTTPError" THEN Failed("KeyError")
    ELSE validated_reply("world_generator", "WorldModel", json_loads(e.text),
                         "ValidationError")

\* generate_world(setting_prompt): gemini raises RuntimeError from every
\* exception, world_generator.py raises the exception again; the WorldModel
\* that validated is returned as it is
generate_world(g, e) ==
    IF g = "gemini"
    THEN (IF gm_world_query_llm(e).exc # "" THEN Failed("RuntimeError")
          ELSE gm_world_query_llm(e))
    ELSE wg_world_query_llm(e)

\* an nx.Graph: its nodes, and its edges as sets of one (a self-loop) or two
\* nodes
Edge(a, b) == {a, b}

\* the (location id, id) pairs of the lists named field of the locations
Listed(world_data, field) ==
    UNION {{<<Attr(loc, "id").s, id>> : id \in StrSet(Attr(loc, field))} :
              loc \in Items(Attr(world_data, "locations"))}

\* gemini create_world_graph: an edge to a connected id only if it is a
\* node by then (a location), an edge from each NPC of npcs to the
\* locations that list it in primary_npcs
gm_create_world_graph(world_data) ==
    [nodes |-> Ids(Attr(world_data, "locations")) \cup Ids(Attr(world_data, "npcs")),
     edges |->
        {Edge(p[1], p[2]) :
            p \in {q \in Listed(world_data, "connected_to") :
                      q[2] \in Ids(Attr(world_data, "locations"))}}
        \cup {Edge(p[2], p[1]) :
                 p \in {q \in Listed(world_data, "primary_npcs") :
                           q[2] \in Ids(Attr(world_data, "npcs"))}}]

\* world_generator.py create_world_graph: add_edge adds the nodes it
\* names; each NPC gets an edge to itself
wg_create_world_graph(world_data) ==
    [nodes |-> Ids(Attr(world_data, "locations")) \cup Ids(Attr(world_data, "npcs"))
               \cup {p[2] : p \in Listed(world_data, "connected_to")},
     edges |->
        {Edge(p[1], p[2]) : p \in Listed(world_data, "connected_to")}
        \cup {Edge(id, id) : id \in Ids(Attr(world_data, "npcs"))}]

create_world_graph(g, world_data) ==
    IF g = "gemini" THEN gm_create_world_graph(world_data)
    ELSE wg_create_world_graph(world_data)

\* the target of load_world when the program starts: absent, no JSON, JSON
\* of another shape, saved worlds, a saved world with unknown ids
TargetFiles ==
    {NoFile, FileOf("{"), FileOf(json_dumps(Shapeless, 0)),
     FileOf(json_dumps(Inn, 0)), FileOf(json_dumps(Vale, 0)),
     FileOf(json_dumps(Rift, 0))}

WorldInit ==
    /\ \/ /\ \E g \in Generators, w \in SavedWorlds :
                call = [fn |-> "save_world", generator |-> g, world_data |-> w]
          /\ files \in PriorFiles
       \/ /\ \E g \in Generators : call = [fn |-> "main", generator |-> g]
          /\ files \in TargetFiles
    /\ ret = NoRet
    /\ EngineIdle /\ StoryIdle /\ HttpIdle /\ UiIdle

\* generator.save_world(world_data, filename)
SaveWorld ==
    /\ call.fn = "save_world"
    /\ ~ret.done
    /\ \E o \in save_world(call.generator, call.world_data, files) :
          /\ files' = o.file
          /\ ret' = [done |-> TRUE, op |-> "save_world", exc |-> o.exc]
    /\ UNCHANGED <<call, engineVars, story, http, ui>>

\* generator.load_world(filename) after the save
LoadWorld ==
    /\ call.fn = "save_world"
    /\ ret.done
    /\ ret.op = "save_world"
    /\ ret' = [done |-> TRUE, op |-> "load_world", save_exc |-> ret.exc,
               exc |-> load_world(call.generator, files).exc,
               value |-> load_world(call.generator, files).value]
    /\ UNCHANGED <<call, engineVars, story, files, http, ui>>

\* the start of the program: world = generator.load_world(filename)
MainLoadWorld ==
    /\ call.fn = "main"
    /\ ~ret.done
    /\ ret' = [done |-> TRUE, op |-> "load_world",
               exc |-> load_world(call.generator, files).exc,
               value |-> load_world(call.generator, files).value]
    /\ UNCHANGED <<call, engineVars, story, files, http, ui>>

\* if world is None: world = generator.generate_world(setting)
MainGenerateWorld ==
    /\ call.fn = "main"
    /\ ret.done
    /\ ret.op = "load_world" /\ ret.exc = "" /\ ret.value = PyNone
    /\ \E e \in WorldEndpoint :
          ret' = [done |-> TRUE, op |-> "generate_world", endpoint |-> e,
                  exc |-> generate_world(call.generator, e).exc,
                  value |-> generate_world(call.generator, e).value]
    /\ UNCHANGED <<call, engineVars, story, files, http, ui>>

\* if world: generator.save_world(world, filename)
MainSaveWorld ==
    /\ call.fn = "main"
    /\ ret.done
    /\ ret.op = "generate_world" /\ ret.exc = ""
    /\ \E o \in save_world(call.generator, ret.value, files) :
          /\ files' = o.file
          /\ ret' = [done |-> TRUE, op |-> "save_world", exc |-> o.exc,
                     value |-> ret.value]
    /\ UNCHANGED <<call, engineVars, story, http, ui>>

\* graph = generator.create_world_graph(world)
MainCreateWorldGraph ==
    /\ call.fn = "main"
    /\ ret.done
    /\ ret.op \in {"load_world", "generate_world", "save_world"}
    /\ ret.exc = "" /\ ret.value # PyNone
    /\ ret' = [done |-> TRUE, op |-> "create_world_graph", exc |-> "",
               value |-> ret.value,
               graph |-> create_world_graph(call.generator, ret.value)]
    /\ UNCHANGED <<call, engineVars, story, files, http, ui>>

WorldNext ==
    \/ SaveWorld
    \/ LoadWorld
    \/ MainLoadWorld
    \/ MainGenerateWorld
    \/ MainSaveWorld
    \/ MainCreateWorldGraph

SpecWorld == WorldInit /\ [][WorldNext]_vars

-----------------------------------------------------------------------------
(* StoryEngine of src/story_engine.py ("story_engine") and of               *)
(* src/gemini/story_engine.py ("gemini").  A session is its                 *)
(* current_location (an id, NoLocation for None), the ids whose            *)
(* location_states entry has visited = True, and the location ids of the    *)
(* entries of its log (story_context, full_event_log).                      *)

StoryEngines == {"story_engine", "gemini"}

\* operations of one story session
MaxStorySteps == 3

\* world_data.locations: id, connected_to, and primary_npcs + secondary_npcs
StoryLocations ==
    <<[id |-> "tavern", connected_to |-> <<"forest">>, npcs |-> <<"mara", "finn">>],
      [id |-> "forest", connected_to |-> <<"tavern">>, npcs |-> <<"finn">>],
      [id |-> "cave", connected_to |-> <<>>, npcs |-> <<>>]>>

\* the ids of world_data.npcs
StoryNpcs == {"mara", "finn"}

LocationIds == {StoryLocations[i].id : i \in 1..Len(StoryLocations)}

NoLocation == "None"

\* the ids start_story is called with
StartIds == {"tavern", "cave", "nowhere"}

\* the location_change of a beat the LLM returned
LocationChanges == {"None", "forest", "cave", "nowhere"}

\* next((loc for loc in locations if loc.id == id), None)
find_location(id) == IF id \in LocationIds THEN id ELSE NoLocation

\* the ids in the connected_to of the location id
connected_to(id) ==
    UNION {{StoryLocations[i].connected_to[j] :
                j \in 1..Len(StoryLocations[i].connected_to)} :
              i \in {k \in 1..Len(StoryLocations) : StoryLocations[k].id = id}}

NewSession == [current_location |-> NoLocation, visited |-> {}, log |-> <<>>]

\* how an operation ends: the session and the exception raised ("": none)
StoryOk(s) == [s |-> s, exc |-> ""]
StoryRaised(s, exc) == [s |-> s, exc |-> exc]

\* what _query_llm and the validation of its reply raise in story_engine.py:
\* requests.post fails, the body has no "response", the reply does not
\* match the schema
SeFailures == {"ConnectionError", "KeyError", "ValidationError"}

\* story_engine.py: the scene is generated and logged at location id
se_logged(s, id) == [s EXCEPT !.current_location = id, !.log = Append(@, id)]

\* story_engine.py start_story(starting_location_id): current_location is
\* assigned before it is tested
se_start_story(s, id) ==
    IF find_location(id) = NoLocation
    THEN {StoryRaised([s EXCEPT !.current_location = NoLocation], "ValueError")}
    ELSE {StoryRaised([s EXCEPT !.current_location = id], x) : x \in SeFailures}
         \cup {StoryOk(se_logged(s, id))}

\* story_engine.py process_action(player_action): get_relevant_npcs reads
\* location.primary_npcs; a location_change that names a location is taken
se_process_action(s) ==
    IF s.current_location = NoLocation THEN {StoryRaised(s, "AttributeError")}
    ELSE {StoryRaised(s, x) : x \in SeFailures}
         \cup {StoryOk(se_logged(s, IF change \in LocationIds THEN change
                                    ELSE s.current_location)) :
                  change \in LocationChanges}

\* gemini StoryEngine.__init__: every known NPC is neutral toward the
\* player, no location is visited.  been is the history of
\* current_location: the ids it has held.
GmNewSession ==
    [current_location |-> NoLocation, visited |-> {}, log |-> <<>>,
     attitudes |-> [n \in StoryNpcs |-> "neutral"], been |-> {}]

\* primary_npcs + secondary_npcs of the location id
present_npcs(id) ==
    UNION {{StoryLocations[i].npcs[j] : j \in 1..Len(StoryLocations[i].npcs)} :
              i \in {k \in 1..Len(StoryLocations) : StoryLocations[k].id = id}}

\* replies of the LLM to generate_story_beat
ReactionOf(npc_id, message) ==
    PyDict(<<"npc_id", "message", "reaction_description">>,
           <<PyStr(npc_id), PyStr(message), PyStr("looks at you")>>)

BeatOf(location_change, npc_reactions) ==
    PyDict(<<"gm_narration", "present_npc_ids", "suggested_actions",
             "npc_reactions", "location_change">>,
           <<PyStr("You look around."), Strs(<<"mara">>), Strs(<<"Wait">>),
             PyList(npc_reactions), location_change>>)

BeatChanges == {PyNone, PyStr("forest"), PyStr("cave"), PyStr("nowhere")}

Messages == {"Leave now!", "Thank you, friend.", "STOP, thanks.", "Hm."}

BeatReactions ==
    {<<>>, <<ReactionOf("finn", "Leave now!")>>,
     <<ReactionOf("ghost", "Leave now!")>>,
     <<ReactionOf("mara", "Leave now!"), ReactionOf("mara", "You idiot.")>>}
    \cup {<<ReactionOf("mara", m)>> : m \in Messages}

BeatReplies ==
    {"The tavern is quiet.", json_dumps(Shapeless, 0)}
    \cup {json_dumps(BeatOf(c, <<>>), 0) : c \in BeatChanges}
    \cup {json_dumps(BeatOf(PyNone, r), 0) : r \in BeatReactions}
    \cup {json_dumps(BeatOf(PyStr("forest"), <<ReactionOf("mara", "Leave now!")>>), 0)}

\* replies of the LLM to get_direct_npc_response
DirectOf(attitude) ==
    PyDict(<<"dialogue", "attitude">>, <<PyStr("Well met."), PyStr(attitude)>>)

DirectReplies ==
    {"Well met.", json_dumps(DirectOf("friendly"), 0),
     json_dumps(DirectOf("hostile"), 0), json_dumps(DirectOf("wary"), 0)}

StoryEndpoint(replies) ==
    {Endpoint("Timeout"), Endpoint("ConnectionError"), Endpoint("HTTPError"),
     Endpoint("NoResponse")}
    \cup {Reply(text) : text \in replies}

\* gemini StoryEngine._query_llm(prompt, model_class): every
\* RequestException, a Timeout included, becomes ConnectionError; no JSON
\* and JSON of another shape become ValueError; a body without "response"
\* raises KeyError into the handler that prints parsed_json, which is not
\* assigned yet
gm_story_query_llm(model_class, e) ==
    IF e.kind \in {"Timeout", "ConnectionError", "HTTPError"}
    THEN Failed("ConnectionError")
    ELSE IF e.kind = "NoResponse" THEN Failed("UnboundLocalError")
    ELSE validated_reply("gemini", model_class,
            json_loads(RStripChars(LStripChars(Strip(e.text), Tick \o "json"),
                                   Tick)),
            "ValueError")

\* a query: what the endpoint did and what _query_llm made of it
Query(model_class, e) ==
    [endpoint |-> e, exc |-> gm_story_query_llm(model_class, e).exc,
     value |-> gm_story_query_llm(model_class, e).value]

NoQuery == [endpoint |-> Endpoint("none"), exc |-> "", value |-> PyNone]

BeatQueries ==
    {Query("GameMasterBeatModel", e) : e \in StoryEndpoint(BeatReplies)}

DirectQueries ==
    {Query("DirectNPCResponseModel", e) : e \in StoryEndpoint(DirectReplies)}

\* how a gemini operation ends: the session, the exception raised, the
\* query it made and the reactions it kept
GmOutcome(s, exc, q, reactions) ==
    [s |-> s, exc |-> exc, query |-> q, reactions |-> reactions]

\* except (ValueError, ConnectionError): raise RuntimeError; another
\* exception is not caught
reraised(exc) ==
    IF exc \in {"ValueError", "ConnectionError"} THEN "RuntimeError" ELSE exc

\* the reactions of NPCs that are known and present at the location id
valid_reactions(id, beat) ==
    SelectSeq(Attr(beat, "npc_reactions").l,
              LAMBDA r : /\ Attr(r, "npc_id").s \in StoryNpcs
                         /\ Attr(r, "npc_id").s \in present_npcs(id))

\* gm_moved without the line that marks the new location visited
gm_moved_unmarked(s, change) ==
    IF /\ change.t = "str" /\ change.s # ""
       /\ change.s \in LocationIds
       /\ change.s \in connected_to(s.current_location)
    THEN [s EXCEPT !.current_location = change.s, !.been = @ \cup {change.s}]
    ELSE s

\* if beat_result.location_change: the move is made if the id is a location
\* that the current one is connected to
gm_moved(s, change) ==
    IF /\ change.t = "str" /\ change.s # ""
       /\ change.s \in LocationIds
       /\ change.s \in connected_to(s.current_location)
    THEN [s EXCEPT !.current_location = change.s, !.visited = @ \cup {change.s},
                   !.been = @ \cup {change.s}]
    ELSE s

NegativeCues == <<"stop", "idiot", "threat", "leave">>
PositiveCues == <<"thank", "friend", "help", "welcome">>

\* any(cue in message.lower() for cue in cues)
has_cue(message, cues) ==
    \E i \in 1..Len(cues) : Contains(Lower(message), cues[i])

\* attitude_after with the positive branch tested first
attitude_after_positive_first(current_attitude, message) ==
    IF has_cue(message, PositiveCues)
    THEN (IF current_attitude = "neutral" THEN "friendly" ELSE current_attitude)
    ELSE IF has_cue(message, NegativeCues)
    THEN (IF current_attitude = "neutral" THEN "hostile" ELSE "neutral")
    ELSE current_attitude

\* the attitude after a reaction with the message
attitude_after(current_attitude, message) ==
    IF has_cue(message, NegativeCues)
    THEN (IF current_attitude = "neutral" THEN "hostile" ELSE "neutral")
    ELSE IF has_cue(message, PositiveCues)
    THEN (IF current_attitude = "neutral" THEN "friendly" ELSE current_attitude)
    ELSE current_attitude

\* for reaction in beat_result.npc_reactions, from the i-th on
RECURSIVE update_attitudes(_, _, _)
update_attitudes(attitudes, reactions, i) ==
    IF i > Len(reactions) THEN attitudes
    ELSE update_attitudes(
            [attitudes EXCEPT ![Attr(reactions[i], "npc_id").s] =
                attitude_after(@, Attr(reactions[i], "message").s)],
            reactions, i + 1)

\* a slip the code could have made: the event is put at the head of the log
gm_logged_first(s, player_action) ==
    [s EXCEPT !.log = <<[location_id |-> s.current_location,
                         player_action |-> player_action]>> \o @]

\* _update_and_summarize_history(player_action, result_data): the event is
\* appended to full_event_log
gm_logged(s, player_action) ==
    [s EXCEPT !.log = Append(@, [location_id |-> s.current_location,
                                 player_action |-> player_action])]

\* gemini: the world state update of generate_story_beat for the validated
\* beat and the reactions kept
gm_beat(s, beat, reactions) ==
    gm_logged([gm_moved(s, Attr(beat, "location_change")) EXCEPT
                  !.attitudes = update_attitudes(@, reactions, 1)],
              "look around")

\* gemini generate_story_beat(player_action) with the query q
gm_generate_story_beat(s, q) ==
    IF s.current_location = NoLocation
    THEN GmOutcome(s, "RuntimeError", NoQuery, <<>>)
    ELSE IF q.exc # "" THEN GmOutcome(s, reraised(q.exc), q, <<>>)
    ELSE GmOutcome(gm_beat(s, q.value, valid_reactions(s.current_location, q.value)),
                   "", q, valid_reactions(s.current_location, q.value))

\* gemini start_story(starting_location_id)
gm_start_story(s, id, q) ==
    IF find_location(id) = NoLocation
    THEN GmOutcome(s, "ValueError", NoQuery, <<>>)
    ELSE gm_generate_story_beat([s EXCEPT !.current_location = id,
                                          !.visited = @ \cup {id},
                                          !.been = @ \cup {id}], q)

\* the ids get_direct_npc_response is called with
TalkIds == {"mara", "finn", "ghost"}

\* gemini get_direct_npc_response(npc_id, player_dialogue) with the query q
get_direct_npc_response(s, npc_id, q) ==
    IF npc_id \notin StoryNpcs THEN GmOutcome(s, "ValueError", NoQuery, <<>>)
    ELSE IF s.current_location = NoLocation
    THEN GmOutcome(s, "AttributeError", NoQuery, <<>>)
    ELSE IF npc_id \notin present_npcs(s.current_location)
    THEN GmOutcome(s, "ValueError", NoQuery, <<>>)
    ELSE IF q.exc # "" THEN GmOutcome(s, reraised(q.exc), q, <<>>)
    ELSE GmOutcome(gm_logged([s EXCEPT !.attitudes[npc_id] =
                                          Attr(q.value, "attitude").s],
                             "Talk to " \o npc_id),
                   "", q, <<>>)

StoryInit ==
    /\ PureIdle /\ EngineIdle /\ FilesIdle /\ HttpIdle /\ UiIdle
    /\ \E e \in StoryEngines :
          story = [engine |-> e, op |-> "__init__", arg |-> "", exc |-> "",
                   s |-> IF e = "gemini" THEN GmNewSession ELSE NewSession,
                   pre |-> IF e = "gemini" THEN GmNewSession ELSE NewSession,
                   query |-> NoQuery, reactions |-> <<>>, hostile_once |-> {},
                   steps |-> 0]

\* the NPCs that are hostile in the session s
Hostile(s) ==
    IF "attitudes" \in DOMAIN s
    THEN {n \in DOMAIN s.attitudes : s.attitudes[n] = "hostile"}
    ELSE {}

\* the end of an operation: pre is the session before it, hostile_once the
\* NPCs that were hostile in some state so far
StoryFinish(op, arg, o) ==
    /\ story' = [story EXCEPT !.s = o.s, !.op = op, !.arg = arg, !.exc = o.exc,
                              !.pre = story.s, !.steps = @ + 1,
                              !.hostile_once = @ \cup Hostile(o.s),
                              !.query = IF "query" \in DOMAIN o THEN o.query
                                        ELSE NoQuery,
                              !.reactions = IF "reactions" \in DOMAIN o
                                            THEN o.reactions ELSE <<>>]
    /\ UNCHANGED <<pureVars, engineVars, files, http, ui>>

StoryRunning(e) == story.engine = e /\ story.steps < MaxStorySteps

SeStartStory ==
    /\ StoryRunning("story_engine")
    /\ \E id \in StartIds : \E o \in se_start_story(story.s, id) :
          StoryFinish("start_story", id, o)

GmStartStory ==
    /\ StoryRunning("gemini")
    /\ \E id \in StartIds : \E q \in BeatQueries :
          StoryFinish("start_story", id, gm_start_story(story.s, id, q))

ProcessAction ==
    /\ StoryRunning("story_engine")
    /\ \E o \in se_process_action(story.s) : StoryFinish("process_action", "", o)

GenerateStoryBeat ==
    /\ StoryRunning("gemini")
    /\ \E q \in BeatQueries :
          StoryFinish("generate_story_beat", "", gm_generate_story_beat(story.s, q))

GetDirectNpcResponse ==
    /\ StoryRunning("gemini")
    /\ \E npc_id \in TalkIds : \E q \in DirectQueries :
          StoryFinish("get_direct_npc_response", npc_id,
                      get_direct_npc_response(story.s, npc_id, q))

StoryNext ==
    \/ SeStartStory
    \/ GmStartStory
    \/ ProcessAction
    \/ GenerateStoryBeat
    \/ GetDirectNpcResponse

SpecStory == StoryInit /\ [][StoryNext]_vars

\* a gemini session on which only start_story and generate_story_beat are
\* called
BeatNext ==
    \/ GmStartStory
    \/ GenerateStoryBeat

SpecBeats == StoryInit /\ [][BeatNext]_vars

-----------------------------------------------------------------------------
(* The Flask application of src/assets/npc/app.py under its server.        *)
(* socketio.run(app, debug=True) serves each request in a thread of its own *)
(* when neither eventlet nor gevent is installed ("threading"); with one of  *)
(* them a handler that never yields runs to its end before the next one     *)
(* starts ("cooperative").  The module holds no lock.  A handler is at      *)
(* "idle" (no request yet), "received" (request.json read), "turn" (inside  *)
(* the GameEngine operation, which waits for the LLM), "finally" (the       *)
(* operation returned or raised) or "done" (the response is sent).  What    *)
(* the operation does to the session is the subject of SpecEngine.          *)

Servers == {"threading", "cooperative"}

\* requests sent to the application
MaxRequests == 3
Requests == 1..MaxRequests

TurnRoutes == {"/process_input", "/handle_talk", "/handle_move"}
Routes == {"/start_game"} \cup TurnRoutes

\* engine is the GameEngine the handler runs its operation on: the number
\* of the /start_game that made it (0: none)
Handler(route, pc, status, engine) ==
    [route |-> route, pc |-> pc, status |-> status, engine |-> engine]

\* the handlers that have started and not ended
InFlight == {r \in Requests : http.handlers[r].pc \in {"received", "turn", "finally"}}

\* the handlers that are inside a turn operation of game_engine
InTurn == {r \in Requests : http.handlers[r].pc = "turn"}

\* the server lets the handler of request r take a step
Scheduled(r) ==
    \/ http.server = "threading"
    \/ http.server = "cooperative" /\ InFlight \subseteq {r}

HttpInit ==
    /\ PureIdle /\ EngineIdle /\ StoryIdle /\ FilesIdle /\ UiIdle
    /\ \E server \in Servers :
          http = [server |-> server, game_engine |-> 0,
                  is_processing |-> FALSE, last_response |-> "None",
                  handlers |-> [r \in Requests |-> Handler("", "idle", 0, 0)]]

HttpStep(r, h) ==
    [http EXCEPT !.handlers[r] = h]

\* a request arrives: data = request.json
Receive(r) ==
    /\ http.handlers[r].pc = "idle"
    /\ Scheduled(r)
    /\ \E route \in Routes : http' = HttpStep(r, Handler(route, "received", 0, 0))
    /\ UNCHANGED <<pureVars, engineVars, story, files, ui>>

\* /start_game: game_engine = GameEngine(world_content, player), start_game
HandleStartGame(r) ==
    /\ http.handlers[r].pc = "received"
    /\ http.handlers[r].route = "/start_game"
    /\ Scheduled(r)
    /\ http' = [HttpStep(r, Handler("/start_game", "done", 200, 0)) EXCEPT
                   !.game_engine = @ + 1]
    /\ UNCHANGED <<pureVars, engineVars, story, files, ui>>

\* a turn handler up to its call of the GameEngine operation: 400 if there
\* is no game_engine; else llm_status["is_processing"] = True and the
\* operation starts
EnterTurn(r) ==
    /\ http.handlers[r].pc = "received"
    /\ http.handlers[r].route \in TurnRoutes
    /\ Scheduled(r)
    /\ http' = IF http.game_engine = 0
               THEN HttpStep(r, Handler(http.handlers[r].route, "done", 400, 0))
               ELSE [HttpStep(r, Handler(http.handlers[r].route, "turn", 0,
                                         http.game_engine)) EXCEPT
                        !.is_processing = TRUE]
    /\ UNCHANGED <<pureVars, engineVars, story, files, ui>>

\* the operation returns its output (200) or raises (500)
LeaveTurn(r) ==
    /\ http.handlers[r].pc = "turn"
    /\ Scheduled(r)
    /\ \E status \in {200, 500} :
          http' = HttpStep(r, Handler(http.handlers[r].route, "finally", status,
                                      http.handlers[r].engine))
    /\ UNCHANGED <<pureVars, engineVars, story, files, ui>>

\* finally: is_processing = False, last_response = output if there is one
Finally(r) ==
    /\ http.handlers[r].pc = "finally"
    /\ Scheduled(r)
    /\ http' = [HttpStep(r, Handler(http.handlers[r].route, "done",
                                    http.handlers[r].status,
                                    http.handlers[r].engine)) EXCEPT
                   !.is_processing = FALSE,
                   !.last_response = IF http.handlers[r].status = 200
                                     THEN "output" ELSE "None"]
    /\ UNCHANGED <<pureVars, engineVars, story, files, ui>>

HttpNext ==
    \E r \in Requests :
        \/ Receive(r)
        \/ HandleStartGame(r)
        \/ EnterTurn(r)
        \/ LeaveTurn(r)
        \/ Finally(r)

SpecHttp == HttpInit /\ [][HttpNext]_vars

-----------------------------------------------------------------------------
(* LLMClient.call_llm on the texts the endpoint may answer with: the JSON   *)
(* extraction of src/main.py and src/game_engine.py.                        *)

\* the longest brace text the endpoint answers with
MaxReplyLen == 4

ReplyAlphabet == {"{", "}", "a"}

\* the texts over the alphabet of at most n characters
RECURSIVE TextsUpTo(_)
TextsUpTo(n) ==
    IF n = 0 THEN {""}
    ELSE TextsUpTo(n - 1)
            \cup {t \o c : t \in TextsUpTo(n - 1), c \in ReplyAlphabet}

\* answers with a json fence
FencedReplies ==
    {Fence \o "json\n{\"a\": 1}\n" \o Fence,
     "} Sure: " \o Fence \o "json {a} " \o Fence \o " {b}",
     Fence \o "json\n[1]\n" \o Fence \o " {c}",
     Fence \o "json {a} " \o Fence \o Fence \o "json {b} " \o Fence}

Replies == TextsUpTo(MaxReplyLen) \cup FencedReplies

ExtractInit ==
    /\ \E raw \in Replies : call = [fn |-> "call_llm", raw |-> raw]
    /\ ret = NoRet
    /\ EngineIdle /\ StoryIdle /\ FilesIdle /\ HttpIdle /\ UiIdle

\* raw_response = response.json()["response"] and the extraction
ApplyCallLlm ==
    /\ call.fn = "call_llm"
    /\ ~ret.done
    /\ ret' = [done |-> TRUE, value |-> call_llm(call.raw)]
    /\ UNCHANGED <<call, engineVars, story, files, http, ui>>

ExtractNext == ApplyCallLlm

SpecExtract == ExtractInit /\ [][ExtractNext]_vars

-----------------------------------------------------------------------------
(* The graphical window of src/UI.py.  The main thread runs the redraw     *)
(* loop and the handlers of the user's clicks; every handler that has a    *)
(* delayed text starts a daemon thread that sleeps and then writes         *)
(* narrative_text and narrative_ready, two assignments with no lock around *)
(* them.  Time is counted in half seconds; a sleeping thread wakes at its  *)
(* due time or later.  A text is the number of the action that wrote it    *)
(* (0: the window's start), the handler of that action, and its stage:     *)
(* "intermediate" for the text a handler shows while its worker sleeps,    *)
(* "final" for a worker's text and for texts without a worker.             *)

\* time.sleep(1) of the narrative workers, in half seconds
NarrativeDelay == 2

\* time.sleep(1.5) of load_images, in half seconds
ImageDelay == 3

\* clicks of the user
MaxClicks == 2

\* half seconds the window is watched for
MaxTime == 4

Text(action, by, stage) == [action |-> action, by |-> by, stage |-> stage]

\* a thread started by the action: kind "narrative" writes narrative_text
\* and then narrative_ready, kind "images" loading_images and then
\* narrative_ready; pc is "sleep" until it has made its first write
Worker(action, by, kind, due) ==
    [action |-> action, by |-> by, kind |-> kind, due |-> due, pc |-> "sleep"]

\* RavenshadeUI.__init__
UiInit ==
    /\ PureIdle /\ EngineIdle /\ StoryIdle /\ FilesIdle /\ HttpIdle
    /\ ui = [window |-> "made", now |-> 0, clicks |-> 0,
             narrative_text |-> Text(0, "__init__", "final"), narrative_ready |-> TRUE,
             loading_images |-> FALSE, workers |-> {},
             shown |-> Text(0, "__init__", "none"), replaced_by_older |-> FALSE]

UiStep(u) ==
    /\ ui' = u
    /\ UNCHANGED <<pureVars, engineVars, story, files, http>>

\* start_image_loading(): the flags and the load_images thread
start_image_loading(u, action, by) ==
    [u EXCEPT !.loading_images = TRUE, !.narrative_ready = FALSE,
              !.workers = @ \cup {Worker(action, by, "images",
                                         u.now + ImageDelay)}]

\* the handler's assignment to narrative_text; replaced_by_older remembers
\* that a text was replaced by the text of an older action
written(u, text) ==
    [u EXCEPT !.narrative_text = text,
              !.replaced_by_older = @ \/ text.action < u.narrative_text.action]

\* a handler with a delayed text: the intermediate text, narrative_ready =
\* False, and the thread that will write the final text
delayed(u, action, by) ==
    [written(u, Text(action, by, "intermediate")) EXCEPT
        !.narrative_ready = FALSE,
        !.workers = @ \cup {Worker(action, by, "narrative",
                                   u.now + NarrativeDelay)}]

\* run(): start_image_loading() before the loop
Run ==
    /\ ui.window = "made"
    /\ UiStep(start_image_loading([ui EXCEPT !.window = "open"], 0, "run"))

Clickable == ui.window = "open" /\ ui.clicks < MaxClicks

Clicked == [ui EXCEPT !.clicks = @ + 1]

\* handle_npc_click(npc_index) for a hovered NPC
HandleNpcClick ==
    /\ Clickable
    /\ UiStep(delayed(Clicked, ui.clicks + 1, "npc"))

\* check_button_clicks: the Examine button
ClickExamine ==
    /\ Clickable
    /\ UiStep(delayed(Clicked, ui.clicks + 1, "examine"))

\* check_button_clicks: the Inventory button writes its text and leaves
\* narrative_ready as it is
ClickInventory ==
    /\ Clickable
    /\ UiStep(written(Clicked, Text(ui.clicks + 1, "inventory", "final")))

\* handle_location_change(new_location): nothing for a connection that is no
\* location of the world; else narrative_ready = False, the intermediate
\* text, start_image_loading() and the update_location thread
HandleLocationChange ==
    /\ Clickable
    /\ \E in_world \in BOOLEAN :
          UiStep(IF in_world
                 THEN [start_image_loading(
                          written([Clicked EXCEPT !.narrative_ready = FALSE],
                                  Text(ui.clicks + 1, "move", "intermediate")),
                          ui.clicks + 1, "move")
                       EXCEPT !.workers = @ \cup
                          {Worker(ui.clicks + 1, "move", "narrative",
                                  ui.now + NarrativeDelay)}]
                 ELSE Clicked)

\* a thread wakes and makes its first assignment
WorkerWrite(w) ==
    /\ w \in ui.workers /\ w.pc = "sleep" /\ w.due <= ui.now
    /\ LET u == [ui EXCEPT !.workers = (@ \ {w}) \cup {[w EXCEPT !.pc = "wrote"]}]
       IN  UiStep(IF w.kind = "images" THEN [u EXCEPT !.loading_images = FALSE]
                  ELSE written(u, Text(w.action, w.by, "final")))

\* its second assignment: self.narrative_ready = True
WorkerReady(w) ==
    /\ w \in ui.workers /\ w.pc = "wrote"
    /\ UiStep([ui EXCEPT !.workers = @ \ {w}, !.narrative_ready = TRUE])

\* draw_main_panel: the narrative text if narrative_ready, else the
\* "Updating narrative..." line
DrawMainPanel ==
    /\ ui.window = "open"
    /\ UiStep([ui EXCEPT !.shown = IF ui.narrative_ready THEN ui.narrative_text
                                    ELSE Text(0, "draw", "updating")])

\* half a second passes
HalfSecond ==
    /\ ui.window = "open" /\ ui.now < MaxTime
    /\ UiStep([ui EXCEPT !.now = @ + 1])

UiNext ==
    \/ Run
    \/ HandleNpcClick
    \/ ClickExamine
    \/ ClickInventory
    \/ HandleLocationChange
    \/ \E w \in ui.workers : WorkerWrite(w)
    \/ \E w \in ui.workers : WorkerReady(w)
    \/ DrawMainPanel
    \/ HalfSecond

SpecUi == UiInit /\ [][UiNext]_vars

-----------------------------------------------------------------------------
(* C1 *)

\* the text parses as a JSON object
IsJsonObject(text) == json_loads(text).ok /\ json_loads(text).v.t = "dict"

\* C1: for every text the LLM returns as an NPC reply that is not a JSON
\* object, generate_npc_response returns exactly the default silent reply of
\* that NPC, and the turn that requested the reply does not raise on it.
C1_MalformedReplyDefaults ==
    \A i \in 1..Len(last.replies) :
        ~IsJsonObject(last.replies[i].text) =>
            /\ last.replies[i].reply = default_npc_reply(last.replies[i].npc)
            /\ last.exc # "AttributeError"

-----------------------------------------------------------------------------
(* C2 *)

\* C2: in every reachable state of a session the length of event_summary is
\* at most the configured maximum of the engine.
C2_SummaryWithinMaxLength == Len(event_summary) <= max_length(variant)

-----------------------------------------------------------------------------
(* C4 *)

\* the first LLM call of the last operation was the narrative call and the
\* endpoint failed on it
FirstNarrativeFailed ==
    last.failed = "narrative" /\ last.calls = <<"narrative">>

\* C4: if the endpoint fails on the first narrative call of a turn, the
\* turn fails, nothing is returned, and current_location and event_summary
\* are exactly what they were before the turn.
C4_FailedNarrativeLeavesSession ==
    FirstNarrativeFailed =>
        /\ last.exc # ""
        /\ ~last.returned
        /\ current_location = last.pre_loc
        /\ event_summary = last.pre_summary

-----------------------------------------------------------------------------
(* C5 *)

\* the selection is no valid position in a list of n candidates: a text
\* typed at the terminal is a 1-based number, an index of the HTTP adapter
\* is 0-based, anything else is no position
BadSelection(selection, n) ==
    IF selection.t = "str"
    THEN ~(IsIntText(selection.s) /\ 1 <= IntOf(selection.s)
                                  /\ IntOf(selection.s) <= n)
    ELSE IF selection.t = "int" THEN ~(0 <= selection.n /\ selection.n < n)
    ELSE TRUE

\* the last operation was a talk or a move with candidates and a selection
\* that is no valid position, and nothing but the selection interfered:
\* the endpoint did not fail and no malformed reply broke the turn (the
\* only error the selection itself can cause is the TypeError of the range
\* test)
BadSelectionMade ==
    /\ last.branch \in {"talk", "move"}
    /\ last.candidates # <<>>
    /\ BadSelection(last.selection, Len(last.candidates))
    /\ last.failed = ""
    /\ last.exc \in {"", "TypeError"}

\* C5: for a non-empty candidate list and a selection that is no valid
\* position in it, talk and move use the first candidate, do not raise
\* because of the selection, and record the one used in event_summary.
C5_BadSelectionUsesFirst ==
    BadSelectionMade =>
        /\ last.chosen = last.candidates[1]
        /\ \E i \in 1..Len(last.events) : Contains(last.events[i], last.chosen)

-----------------------------------------------------------------------------
(* C6 *)

\* no start_story has been tried on the session
Uninitialized(s) == s \in {NewSession, GmNewSession}

\* the session is at a location and has generated a scene there
Active(s) == s.current_location # NoLocation /\ s.log # <<>>

\* C6: start_story(id) with an id that matches no location fails with the
\* invalid-location error and leaves the session as it was: an
\* uninitialized session stays uninitialized, an active one keeps its
\* current_location, visited flags and log.
C6_InvalidStartLeavesSession ==
    (/\ story.op = "start_story"
     /\ story.arg \notin LocationIds
     /\ (Uninitialized(story.pre) \/ Active(story.pre)))
        => /\ story.exc = "ValueError"
           /\ story.s = story.pre

-----------------------------------------------------------------------------
(* C8 *)

\* a generic turn "explore" at A of the world A <-> B without NPCs in A, in
\* which the endpoint answered every call
ExploredAtA ==
    /\ world = WorldAB
    /\ last.op = "process_player_input"
    /\ last.branch = "generic"
    /\ last.player_input = "explore"
    /\ last.pre_loc = 1
    /\ last.failed = ""

\* C8: that turn returns suggested actions with a "Move to a new location"
\* entry mentioning B and without any "talk to" suggestion, whatever the
\* LLM returns for the active-NPC and the extra-choice calls.
C8_ExploreSuggestsMoveNotTalk ==
    ExploredAtA =>
        /\ last.returned
        /\ \E i \in 1..Len(last.default_choices) :
              /\ StartsWith(last.default_choices[i], "Move to a new location")
              /\ Contains(last.default_choices[i], "B")
        /\ \A i \in 1..Len(last.default_choices) :
              ~Contains(Lower(last.default_choices[i]), "talk to")

-----------------------------------------------------------------------------
(* C9 *)

\* C9: if the endpoint call fails during an NPC-reply step or during the
\* extra-choices step of a turn, the turn still completes and no exception
\* reaches its caller.
C9_ReplyAndChoiceFailuresDegrade ==
    (/\ last.op \in {"process_player_input", "handle_talk_option",
                     "handle_move_option"}
     /\ last.failed \in {"reply", "choices"})
        => last.exc = "" /\ last.returned

-----------------------------------------------------------------------------
(* C10 *)

\* load_world was called after save_world had returned without raising
LoadedAfterSave ==
    /\ call.fn = "save_world"
    /\ ret.done /\ ret.op = "load_world" /\ ret.save_exc = ""

\* C10: for every valid World w, when save_world(w, target) completes,
\* load_world(target) returns a World equal to w in every field, nested
\* plots and NPCs included.
C10_LoadReturnsSavedWorld ==
    LoadedAfterSave => ret.exc = "" /\ ret.value = call.world_data

-----------------------------------------------------------------------------
(* C11 *)

\* the target of load_world is missing, is no JSON, or is JSON that does
\* not match WorldModel
BadTarget(g) ==
    \/ ~files.exists
    \/ ~json_loads(files.text).ok
    \/ ~Validates(g, "WorldModel", json_loads(files.text).v)

\* C11: load_world on a target that is missing, is not valid JSON, or is
\* JSON of another shape than a World's returns None and does not raise.
C11_BadTargetLoadsNone ==
    (ret.done /\ ret.op = "load_world" /\ BadTarget(call.generator)) =>
        (ret.exc = "" /\ ret.value = PyNone)

-----------------------------------------------------------------------------
(* C12 *)

\* every NPC id in primary_npcs, secondary_npcs and plot.key_npcs of a
\* location is the id of an NPC of the world, and every id in a
\* connected_to is the id of a location
CrossReferenced(world_data) ==
    /\ \A p \in Listed(world_data, "primary_npcs")
                \cup Listed(world_data, "secondary_npcs") :
          p[2] \in Ids(Attr(world_data, "npcs"))
    /\ \A loc \in Items(Attr(world_data, "locations")) :
          StrSet(Attr(Attr(loc, "plot"), "key_npcs"))
              \subseteq Ids(Attr(world_data, "npcs"))
    /\ \A p \in Listed(world_data, "connected_to") :
          p[2] \in Ids(Attr(world_data, "locations"))

\* C12: every World that generate_world or load_world returns is
\* cross-referenced; a candidate that is not is rejected.
C12_ReturnedWorldCrossReferenced ==
    (ret.done /\ ret.op \in {"load_world", "generate_world"}
              /\ ret.exc = "" /\ ret.value # PyNone) =>
        CrossReferenced(ret.value)

-----------------------------------------------------------------------------
(* C20 *)

\* a World in the sense of the claim: cross-referenced, no location
\* connected to itself, no id shared by a location and an NPC
PlainWorld(world_data) ==
    /\ CrossReferenced(world_data)
    /\ \A p \in Listed(world_data, "connected_to") : p[1] # p[2]
    /\ Ids(Attr(world_data, "locations")) \cap Ids(Attr(world_data, "npcs")) = {}

\* C20: the graph of create_world_graph has exactly the location ids and
\* the NPC ids as nodes, and exactly one edge per connected_to pair and one
\* edge between each NPC and every location that lists it in primary_npcs.
C20_GraphOfWorld ==
    (ret.done /\ ret.op = "create_world_graph" /\ PlainWorld(ret.value)) =>
        /\ ret.graph.nodes = Ids(Attr(ret.value, "locations"))
                                \cup Ids(Attr(ret.value, "npcs"))
        /\ ret.graph.edges =
              {Edge(p[1], p[2]) : p \in Listed(ret.value, "connected_to")}
              \cup {Edge(p[2], p[1]) : p \in Listed(ret.value, "primary_npcs")}
        /\ \A e \in ret.graph.edges : Cardinality(e) = 2

-----------------------------------------------------------------------------
(* C14 *)

\* the three failures of the claim: the endpoint is unreachable, the
\* request timed out, the reply is malformed or violates the schema
FailureKind(q) ==
    IF q.exc = "" THEN "none"
    ELSE IF q.endpoint.kind = "ConnectionError" THEN "unreachable"
    ELSE IF q.endpoint.kind = "Timeout" THEN "timeout"
    ELSE IF q.endpoint.kind = "reply" THEN "malformed"
    ELSE "other"

ThreeFailures == {"unreachable", "timeout", "malformed"}

\* C14: an unreachable endpoint, a timed-out request and a malformed or
\* schema-violating reply reach the caller of _query_llm and the caller of
\* generate_story_beat as three distinguishable errors: no failure of
\* another of the three kinds is reported with the same error.
C14_FailuresDistinguishable ==
    (/\ story.engine = "gemini"
     /\ story.op = "generate_story_beat"
     /\ FailureKind(story.query) \in ThreeFailures) =>
        \A q \in BeatQueries :
            (/\ FailureKind(q) \in ThreeFailures
             /\ FailureKind(q) # FailureKind(story.query)) =>
                /\ q.exc # story.query.exc
                /\ reraised(q.exc) # story.exc

-----------------------------------------------------------------------------
(* C15 *)

\* the last operation was a beat of the gemini engine (that of start_story
\* included) that returned
BeatReturned ==
    /\ story.engine = "gemini"
    /\ story.op \in {"start_story", "generate_story_beat"}
    /\ story.exc = ""

\* the messages of the reactions of the NPC n that the last beat kept
MessagesOf(n) ==
    SelectSeq([i \in 1..Len(story.reactions) |->
                  IF Attr(story.reactions[i], "npc_id").s = n
                  THEN Attr(story.reactions[i], "message").s ELSE ""],
              LAMBDA m : m # "")

\* one step down the ladder friendly -> neutral -> hostile
StepDown(attitude) ==
    IF attitude = "friendly" THEN "neutral" ELSE "hostile"

Ladder == {"friendly", "neutral", "hostile"}

\* C15: when an NPC's reaction message contains a negative cue word, its
\* attitude moves one step down the ladder: friendly becomes neutral,
\* neutral becomes hostile, hostile stays hostile.
C15_NegativeStepsDown ==
    BeatReturned =>
        \A n \in StoryNpcs :
            (/\ Len(MessagesOf(n)) = 1
             /\ has_cue(MessagesOf(n)[1], NegativeCues)
             /\ story.pre.attitudes[n] \in Ladder) =>
                story.s.attitudes[n] = StepDown(story.pre.attitudes[n])

-----------------------------------------------------------------------------
(* C16 *)

\* C16: over generate_story_beat turns, an NPC that has been hostile is not
\* friendly in any later state.
C16_HostileNeverFriendly ==
    story.engine = "gemini" =>
        \A n \in story.hostile_once : story.s.attitudes[n] # "friendly"

-----------------------------------------------------------------------------
(* C17 *)

\* C17: a reaction with a positive and no negative cue word makes a neutral
\* NPC friendly and leaves a friendly or hostile one as it is; with both a
\* negative and a positive cue word only the negative transition is made
\* (a neutral NPC becomes hostile, a friendly one neutral, and none
\* friendly).
C17_PositiveStepsUp ==
    BeatReturned =>
        \A n \in StoryNpcs :
            (Len(MessagesOf(n)) = 1 /\ has_cue(MessagesOf(n)[1], PositiveCues)) =>
                IF ~has_cue(MessagesOf(n)[1], NegativeCues)
                THEN /\ story.pre.attitudes[n] = "neutral"
                          => story.s.attitudes[n] = "friendly"
                     /\ story.pre.attitudes[n] \in {"friendly", "hostile"}
                          => story.s.attitudes[n] = story.pre.attitudes[n]
                ELSE /\ story.pre.attitudes[n] = "neutral"
                          => story.s.attitudes[n] = "hostile"
                     /\ story.pre.attitudes[n] = "friendly"
                          => story.s.attitudes[n] = "neutral"
                     /\ story.pre.attitudes[n] = "hostile"
                          => story.s.attitudes[n] # "friendly"

\* a beat gave a hostile NPC a reaction with a positive cue word only
C17_Witness ==
    /\ BeatReturned
    /\ \E n \in StoryNpcs :
          /\ Len(MessagesOf(n)) = 1
          /\ has_cue(MessagesOf(n)[1], PositiveCues)
          /\ ~has_cue(MessagesOf(n)[1], NegativeCues)
          /\ story.pre.attitudes[n] = "hostile"
          /\ story.s.attitudes[n] = "hostile"

-----------------------------------------------------------------------------
(* C18 *)

\* C18: in every state of the gemini StoryEngine every known NPC has an
\* attitude toward the player, and it is friendly, neutral or hostile.
C18_AttitudeOnLadder ==
    story.engine = "gemini" =>
        /\ DOMAIN story.s.attitudes = StoryNpcs
        /\ \A n \in StoryNpcs : story.s.attitudes[n] \in Ladder

-----------------------------------------------------------------------------
(* C19 *)

\* C19: in the gemini StoryEngine the current location is visited, a
\* visited flag never goes from true to false, and only a location that has
\* been the current location is visited.
C19_VisitedFollowsLocation ==
    /\ [](story.engine = "gemini" =>
            /\ story.s.current_location # NoLocation
                  => story.s.current_location \in story.s.visited
            /\ story.s.visited \subseteq story.s.been)
    /\ [][story.engine = "gemini" => story.s.visited \subseteq story'.s.visited]_vars

\* a beat moved the player from the tavern to the forest
C19_Witness ==
    /\ story.engine = "gemini"
    /\ story.exc = ""
    /\ story.pre.current_location = "tavern"
    /\ story.s.current_location = "forest"
    /\ story.s.visited = {"tavern", "forest"}

-----------------------------------------------------------------------------
(* C13 *)

\* C13: at most one turn operation is executing against the session at any
\* time: two handlers of the HTTP adapter never run turn operations on the
\* shared game_engine at the same time.
C13_OneTurnAtATime ==
    \A r1 \in InTurn : \A r2 \in InTurn :
        http.handlers[r1].engine = http.handlers[r2].engine => r1 = r2

-----------------------------------------------------------------------------
(* C21 *)

\* the handlers between llm_status["is_processing"] = True and the finally
\* block that resets it
Executing == {r \in Requests : http.handlers[r].pc \in {"turn", "finally"}}

\* C21: in the HTTP adapter llm_status.is_processing is true whenever some
\* handler among process_input, handle_talk and handle_move is executing a
\* turn, and false once no such handler is executing.
C21_ProcessingWhileTurn ==
    http.is_processing <=> Executing # {}

-----------------------------------------------------------------------------
(* C22 *)

\* the last operation returned a suggested-actions list
ChoicesBuilt == last.op # "none" /\ last.returned /\ last.default_choices # <<>>

\* C22: the suggested-actions list built by a turn starts with "Explore the
\* area"; next comes a "Talk to someone (...)" entry if and only if NPCs are
\* present at the location; next comes exactly one move entry, naming the
\* connected locations when there are any and the generic one otherwise; the
\* LLM-suggested actions follow, and the list contains no string twice.
C22_SuggestedActionsShape ==
    ChoicesBuilt =>
        LET choices == last.default_choices
            location == world[last.loc]
            talk == IF location.npcs # <<>> THEN 1 ELSE 0
            move == 2 + talk
        IN  /\ choices[1] = "Explore the area"
            /\ location.npcs # <<>>
                  <=> (Len(choices) >= 2
                       /\ StartsWith(choices[2], "Talk to someone ("))
            /\ Len(choices) >= move
            /\ choices[move] =
                  IF location.connections # <<>>
                  THEN "Move to a new location ("
                           \o Join(", ", location.connections) \o ")"
                  ELSE "Move to a new location"
            /\ \A i \in 1..Len(choices) :
                  /\ i > move => ~StartsWith(choices[i], "Move to a new location")
                  /\ \A j \in 1..Len(choices) : choices[i] = choices[j] => i = j

-----------------------------------------------------------------------------
(* C23 *)

\* the last operation was a generic turn
GenericTurn == last.op = "process_player_input" /\ last.branch = "generic"

\* the follow-up narrative calls the last operation made
FollowupCalls == {i \in 1..Len(last.calls) : last.calls[i] = "followup"}

\* the marker events the last operation gave to the event summary
Markers == {i \in 1..Len(last.events) : last.events[i] = ScenePhrase}

-----------------------------------------------------------------------------
(* C24 *)

NamedInNarrative(npc) == NamedIn(npc, call.narrative)

\* determine_active_npcs returned, and no first name of the roster occurs in
\* the player text
NoDirectMatch ==
    /\ call.fn = "determine_active_npcs"
    /\ ret.done
    /\ ret.value.exc = ""
    /\ \A i \in 1..Len(call.npcs) : ~NamedByPlayer(call.npcs[i])

\* the candidates whose answer contains "true", in their order
Affirmed(candidates, answers) ==
    LET positions ==
            SelectSeq([i \in 1..Len(candidates) |-> i],
                      LAMBDA i : Contains(Lower(answers[i]), "true"))
    IN  [k \in 1..Len(positions) |-> candidates[positions[k]]]

\* C24: when no NPC first name occurs in the player text but some occur in
\* the narrative, determine_active_npcs asks the LLM once per such candidate
\* and returns exactly the candidates whose answer contains "true" (possibly
\* none); only when no name occurs in the narrative either does it make the
\* single roster-wide call; every NPC it returns is a member of the roster.
C24_CandidatesFilteredByAnswers ==
    NoDirectMatch =>
        LET candidates == SelectSeq(call.npcs, NamedInNarrative)
        IN  /\ candidates # <<>> =>
                  /\ ret.value.calls = [i \in 1..Len(candidates) |-> "presence"]
                  /\ ret.value.v = PyList(Affirmed(candidates, ret.value.answers))
            /\ candidates = <<>> => ret.value.calls = <<"roster">>
            /\ \A i \in 1..Len(ret.value.v.l) :
                  \E j \in 1..Len(call.npcs) : ret.value.v.l[i] = call.npcs[j]

-----------------------------------------------------------------------------
(* C25 *)

\* call_llm returned for the reply text call.raw
Extracted == call.fn = "call_llm" /\ ret.done

\* the text holds block between a json fence and a closing fence, white
\* space aside
FencedIn(raw, block) ==
    \E p \in 1..Len(raw) :
        LET q == SkipWs(raw, p + 7)
        IN  /\ StartsWithAt(raw, p, Fence \o "json")
            /\ StartsWithAt(raw, q, block)
            /\ StartsWithAt(raw, SkipWs(raw, q + Len(block)), Fence)

\* the braced texts within raw
Braced(raw) ==
    {SubSeq(raw, q, r) : <<q, r>> \in
        {x \in (1..Len(raw)) \X (1..Len(raw)) :
            x[1] < x[2] /\ At(raw, x[1]) = "{" /\ At(raw, x[2]) = "}"}}

\* the text has a json fenced block
HasFencedBlock(raw) == \E block \in Braced(raw) : FencedIn(raw, block)

\* C25: call_llm returns the content of a json fenced block if the text has
\* one; otherwise the substring from the first '{' to the last '}' if both
\* occur; otherwise the raw text unchanged.  A reply in which both occur but
\* the last '}' precedes the first '{' is passed through unchanged.
C25_ExtractionPolicy ==
    Extracted =>
        LET raw == call.raw
            first == Find(raw, "{")
            last_close == RFind(raw, "}")
        IN  IF HasFencedBlock(raw)
            THEN ret.value \in Braced(raw) /\ FencedIn(raw, ret.value)
            ELSE IF first # 0 /\ last_close # 0 /\ first < last_close
            THEN ret.value = SubSeq(raw, first, last_close)
            ELSE ret.value = raw

-----------------------------------------------------------------------------
(* C26 *)

\* the operation that ends with this step is a generate_story_beat (that of
\* start_story included) or a get_direct_npc_response that did not raise
LoggedOperation ==
    /\ story'.op \in {"start_story", "generate_story_beat",
                      "get_direct_npc_response"}
    /\ story'.exc = ""

\* C26: in the gemini StoryEngine full_event_log is append-only: every
\* successful generate_story_beat or get_direct_npc_response appends exactly
\* one record at the end, a failed call appends none, and no operation
\* removes, reorders or rewrites an existing record.
C26_LogAppendOnly ==
    [][story.engine = "gemini" =>
          /\ Len(story'.s.log) =
                Len(story.s.log) + (IF LoggedOperation THEN 1 ELSE 0)
          /\ SubSeq(story'.s.log, 1, Len(story.s.log)) = story.s.log
          /\ LoggedOperation =>
                story'.s.log[Len(story'.s.log)].location_id
                    = story'.s.current_location]_vars

\* a talk was logged after a beat, and the beat's record is still the first
C26_Witness ==
    /\ story.engine = "gemini"
    /\ story.op = "get_direct_npc_response"
    /\ story.exc = ""
    /\ Len(story.s.log) = 2
    /\ story.s.log[1].player_action = "look around"
    /\ story.s.log[2].player_action = "Talk to mara"

-----------------------------------------------------------------------------
(* C27 *)

\* the workers that will still write narrative_text
PendingWriters == {w \in ui.workers : w.kind = "narrative" /\ w.pc = "sleep"}

\* C27: in the graphical UI, whenever narrative_ready is true no worker
\* started by an earlier action is still pending that will later overwrite
\* narrative_text; the redraw loop never shows an action's intermediate text
\* as ready, and a finished action's text is never replaced by the text of
\* an older action.
C27_ReadyMeansSettled ==
    /\ ui.narrative_ready => PendingWriters = {}
    /\ ui.shown.stage # "intermediate"
    /\ ~ui.replaced_by_older

-----------------------------------------------------------------------------
(* C28 *)

\* the operations that are turns of a story session
StoryTurns == {"process_action", "generate_story_beat", "get_direct_npc_response"}

\* C28: current_location is a location of the World once the session is
\* Active, and every change of current_location made by a turn goes to a
\* location listed in the connections of the location the player was in
\* before the turn: a destination that is unknown or not connected leaves
\* current_location unchanged.
C28_MovesFollowConnections ==
    story.engine # "none" =>
        /\ story.s.log # <<>> => story.s.current_location \in LocationIds
        /\ (/\ story.op \in StoryTurns
            /\ story.s.current_location # story.pre.current_location)
              => story.s.current_location
                    \in connected_to(story.pre.current_location)

-----------------------------------------------------------------------------
(* C29 *)

\* the terminal session of src/main.py, inside its main loop
InMainLoop == variant = "main" /\ adapter = "terminal" /\ started

\* C29: in the main loop of src/main.py every iteration either exits or
\* gets a fresh next_action from the player: no iteration ends, the loop
\* still going, without a read of stdin (an iteration at a location without
\* NPCs for a talk command, or without connections for a move command,
\* included), and once next_action is "exit" no further iteration runs
C29_IterationReadsOrExits ==
    [][InMainLoop =>
         /\ Lower(next_action) = "exit" => turns' = turns
         /\ (turns' # turns /\ ~crashed') => last'.op # "main_loop"]_vars

-----------------------------------------------------------------------------
(* C30 *)

\* the last operation of the engine was a talk or a move operation in which
\* an LLM call failed
TalkOrMoveFailed ==
    /\ last.op \in {"handle_talk_option", "handle_move_option",
                    "process_player_input"}
    /\ last.branch \in {"talk", "move"}
    /\ last.failed # ""

\* the last operation of the gemini StoryEngine was a start_story whose
\* first beat failed in its LLM call
StartBeatFailed ==
    /\ story.engine = "gemini"
    /\ story.op = "start_story"
    /\ story.query # NoQuery
    /\ story.query.exc # ""

\* C30: a talk operation, a move operation or a gemini start_story in which
\* an LLM call fails ends with an exception and with current_location,
\* event_summary and the visited flags exactly as they were before it
C30_FailedOperationLeavesSession ==
    /\ TalkOrMoveFailed =>
          /\ last.exc # ""
          /\ current_location = last.pre_loc
          /\ event_summary = last.pre_summary
    /\ StartBeatFailed =>
          /\ story.exc # ""
          /\ story.s.current_location = story.pre.current_location
          /\ story.s.visited = story.pre.visited

=============================================================================
